---- MODULE Spec2Model ----
(***************************************************************************)
(* State-machine model of the clan-storage bot (src/discord-clan-bot):     *)
(* DatabaseManager (spreadsheet + local backup table), the /add_item       *)
(* command, NotificationManager.send_expiring_items_alert with the daily   *)
(* check that calls it, and the pure helpers of utils.py.                  *)
(*                                                                         *)
(* Time is an integer count of clock ticks.  A second has TicksPerSecond   *)
(* ticks (the sub-second part is what strftime drops) and a day has        *)
(* SecondsPerDay seconds.                                                  *)
(***************************************************************************)
EXTENDS Integers, Sequences, FiniteSets, TLC

VARIABLES
    worksheet,    \* DatabaseManager.worksheet is not None (spreadsheet connected)
    sheetRows,    \* data rows of the spreadsheet, below the header row
    backupRows,   \* rows of the backup table 'items', in rowid order
    now,          \* the wall clock, in ticks
    ret,          \* the last call made and what it returned
    alertItems,   \* expiring_items handed to the daily check / the alert
    caller,       \* who started the alert: "direct" or "tick"
    alertPc,      \* position inside send_expiring_items_alert
    chunkIdx,     \* enumerate(chunks, 1): index of the next continuation chunk
    sent,         \* every webhook post attempted, in order, with its outcome
    success,      \* local 'success' of send_expiring_items_alert
    alertResult,  \* value returned by send_expiring_items_alert
    tickLog,      \* the info lines check_expiring_items logged after its alert
    emojiDays,    \* argument of get_item_status_emoji
    emojiOut,     \* its result
    listPc,       \* position inside the /list_items handler
    listItems,    \* its local 'items', the list get_all_items() returned
    listPage,     \* its loop variable 'page'
    listLog,      \* what the handler sent and when it slept, in order
    runNo,        \* how many times the process has been started
    ready,        \* the bot's connection has become ready (wait_until_ready returns)
    loopPc,       \* position of the check_expiring_items loop task
    nextIteration,\* the instant the loop's next iteration is due
    checkLog,     \* every run of check_expiring_items begun: when, in which process
    executing,    \* the handlers that are executing code (not suspended at an await)
    calls,        \* RateLimiter.calls: the recorded call times of each identifier
    cache,        \* Cache.cache: the entry stored under each key
    retry,        \* a call of a function wrapped by retry_on_failure
    mainPc,       \* position of the process in main.py, from its imports to its exit
    running,      \* BotManager.running
    closed,       \* bot.is_closed()
    pending,      \* shutdown() tasks created by the signal handler and not yet begun
    shutdownPc,   \* position of every shutdown() task that entered the body
    mainLog,      \* what the process did, in order
    exitStatus    \* exit status of the process, "none" while it runs

vars == <<worksheet, sheetRows, backupRows, now, ret, alertItems, caller, alertPc,
          chunkIdx, sent, success, alertResult, tickLog, emojiDays, emojiOut,
          listPc, listItems, listPage, listLog,
          runNo, ready, loopPc, nextIteration, checkLog, executing,
          calls, cache, retry,
          mainPc, running, closed, pending, shutdownPc, mainLog, exitStatus>>

dbVars == <<worksheet, sheetRows, backupRows, ret>>
alertVars == <<alertItems, caller, alertPc, chunkIdx, sent, success, alertResult,
              tickLog>>
emojiVars == <<emojiDays, emojiOut>>
objVars == <<calls, cache, retry>>
utilVars == <<emojiDays, emojiOut, calls, cache, retry>>
mainVars == <<mainPc, running, closed, pending, shutdownPc, mainLog, exitStatus>>
listVars == <<listPc, listItems, listPage, listLog>>
loopVars == <<runNo, ready, loopPc, nextIteration, checkLog>>
schedVars == <<runNo, ready, loopPc, nextIteration, checkLog, executing>>

(***************************************************************************)
(* Bounds of the model                                                     *)
(***************************************************************************)
TicksPerSecond == 2
SecondsPerDay == 2
MaxItems == 2
MaxAddTick == 1
MaxAlertItems == 21
StatusDayBound == 30
MaxListItems == 21
MaxRuns == 2
MaxChecks == 3
MaxTimerSlack == 1
MaxParseTick == 7
MaxPieces == 3
MaxSignals == 2
LimiterMaxCalls == 2
LimiterWindow == 1
CacheDefaultTtl == 2
MaxChunkLen == 12
MaxChunkSize == 9
MaxRetries == 5
MaxRetryDelay == 3
MaxHandlerErrors == 1

(***************************************************************************)
(* Program constants                                                       *)
(***************************************************************************)
ITEM_EXPIRY_DAYS == 30
NOTIFICATION_DAYS_BEFORE == 7
ITEM_TYPES == {"UNIQUE", "RED", "CONSUMABLE"}
\* items per embed: items_list[:10], items_list[10:], range(0, len, 10)
PageSize == 10
\* positional parameters of DatabaseManager.add_item after self
AddItemParams == 3
\* positional arguments bot.py passes to bot.db.add_item
CmdAddItemArgs == 4

TicksPerDay == SecondsPerDay * TicksPerSecond
\* timedelta(days=d)
Timedelta(d) == d * TicksPerDay
\* the clock runs until one day after the last item added has expired
MaxTick == Timedelta(ITEM_EXPIRY_DAYS + 1) + MaxAddTick

Min(a, b) == IF a < b THEN a ELSE b
SetMax(S) == CHOOSE x \in S : \A y \in S : y <= x

(***************************************************************************)
(* Text values.  A participant string is the sequence of its               *)
(* comma-separated pieces; a piece is a name with or without surrounding   *)
(* blanks, and the name may be empty ("A,,B," has two empty pieces).       *)
(***************************************************************************)
Tok(n) == [pad |-> FALSE, name |-> n]
PadTok(n) == [pad |-> TRUE, name |-> n]
\* str.split(',')
Split(p) == p
\* str.strip()
Strip(tok) == tok.name
\* str.upper() on the item types used as inputs
Upper(s) ==
    CASE s = "unique" -> "UNIQUE"
      [] s = "red" -> "RED"
      [] OTHER -> s

\* strftime('%Y-%m-%d %H:%M:%S'): the text keeps whole seconds only
Strftime(t) == t - (t % TicksPerSecond)
\* strptime of that text, then TIMEZONE.localize: the instant at the whole second
Strptime(s) == s

(***************************************************************************)
(* DatabaseManager                                                         *)
(***************************************************************************)
NoRet ==
    [op |-> "none", num |-> 0, ok |-> FALSE, reply |-> "", items |-> <<>>,
     err |-> FALSE, valid |-> FALSE, sheetErr |-> FALSE, backupErr |-> FALSE,
     tipe |-> "", created_date |-> [fmt |-> "", date |-> 0], at |-> 0, used |-> 0,
     arg |-> <<>>, out |-> <<>>,
     appends |-> 0, inserts |-> 0, appendFailed |-> FALSE, insertFailed |-> FALSE]

SheetNumbers(sheet) == {sheet[i].no : i \in 1..Len(sheet)}
BackupNumbers(backup) == {backup[i].no : i \in 1..Len(backup)}

\* DatabaseManager._get_next_number.  sheetErr: get_all_values raises;
\* backupErr: the SELECT MAX(no) raises.  Either way the except returns 1.
_get_next_number(ws, sheet, backup, sheetErr, backupErr) ==
    IF ws /\ sheetErr THEN 1
    ELSE IF ws /\ Len(sheet) > 0
         THEN IF SheetNumbers(sheet) # {} THEN SetMax(SheetNumbers(sheet)) + 1 ELSE 1
    ELSE IF backupErr THEN 1
    ELSE IF backup = <<>> \/ SetMax(BackupNumbers(backup)) = 0 THEN 1
    ELSE SetMax(BackupNumbers(backup)) + 1

\* the retention period off by one day
ExpireDate_OffByOne(t) == t + Timedelta(ITEM_EXPIRY_DAYS + 1)

\* expire_date = now + timedelta(days=Config.ITEM_EXPIRY_DAYS)
ExpireDate(t) == t + Timedelta(ITEM_EXPIRY_DAYS)

\* the row appended to the spreadsheet
SheetRow(no, nama, type, part, t) ==
    [no |-> no, nama_item |-> nama, type |-> Upper(type), participant |-> part,
     created |-> Strftime(t), updated |-> Strftime(t),
     expire |-> Strftime(ExpireDate(t))]

\* the row inserted by _add_to_backup
BackupRow(no, nama, type, part, t, synced) ==
    [no |-> no, nama_item |-> nama, type |-> Upper(type), participant |-> part,
     created_at |-> t, updated_at |-> t, expire_date |-> ExpireDate(t),
     synced |-> synced]

\* The body of DatabaseManager.add_item, called as `op`.  appendFails:
\* worksheet.append_row raises; insertFails: the INSERT raises inside
\* _add_to_backup, which logs it.  The method returns True on every such path.
add_item(op, nama, type, part, sheetErr, backupErr, appendFails, insertFails) ==
    LET next_no == _get_next_number(worksheet, sheetRows, backupRows, sheetErr, backupErr)
        appended == worksheet /\ ~appendFails
    IN  /\ sheetRows' = IF appended
                        THEN Append(sheetRows, SheetRow(next_no, nama, type, part, now))
                        ELSE sheetRows
        /\ backupRows' = IF insertFails
                         THEN backupRows
                         ELSE Append(backupRows,
                                     BackupRow(next_no, nama, type, part, now, appended))
        /\ ret' = [NoRet EXCEPT !.op = op, !.ok = TRUE, !.num = next_no,
                                !.err = sheetErr \/ backupErr,
                                !.reply = "success", !.valid = TRUE,
                                !.appends = IF worksheet THEN 1 ELSE 0,
                                !.inserts = 1,
                                !.appendFailed = worksheet /\ appendFails,
                                !.insertFailed = insertFails]

DbParticipants ==
    { <<Tok("Alice"), PadTok("Bob")>>,             \* "Alice, Bob"
      <<Tok("Alice"), Tok(""), Tok("Alice")>> }    \* "Alice,,Alice"

\* DatabaseManager.add_item(nama_item, item_type, participant), with the
\* participant text drawn from parts and the read failures of _get_next_number
\* from readErrs
DbAddItemOf(parts, readErrs) ==
    /\ now <= MaxAddTick
    /\ Len(sheetRows) < MaxItems
    /\ Len(backupRows) < MaxItems
    /\ \E part \in parts, sheetErr, backupErr \in readErrs, appendFails, insertFails \in BOOLEAN :
           add_item("add_item", "Sword", "unique", part,
                    sheetErr, backupErr, appendFails, insertFails)
    /\ UNCHANGED <<worksheet, now>>

DbAddItem == DbAddItemOf(DbParticipants, BOOLEAN)

\* a call of DatabaseManager._get_next_number on its own
DbGetNextNumber ==
    /\ \E sheetErr, backupErr \in BOOLEAN :
           ret' = [NoRet EXCEPT !.op = "get_next_number",
                                !.num = _get_next_number(worksheet, sheetRows, backupRows,
                                                      sheetErr, backupErr),
                                !.err = sheetErr \/ backupErr]
    /\ UNCHANGED <<worksheet, sheetRows, backupRows, now>>

(***************************************************************************)
(* get_expiring_items                                                      *)
(***************************************************************************)
\* the dict built from a spreadsheet record
SheetItem(r) ==
    [no |-> r.no, nama_item |-> r.nama_item, type |-> r.type,
     participant |-> r.participant, expire_date |-> Strptime(r.expire)]

\* the dict built from a backup row
BackupItem(r) ==
    [no |-> r.no, nama_item |-> r.nama_item, type |-> r.type,
     participant |-> r.participant, expire_date |-> r.expire_date]

MapSeq(f(_), s) == [i \in 1..Len(s) |-> f(s[i])]
RemoveAt(s, i) == SubSeq(s, 1, i - 1) \o SubSeq(s, i + 1, Len(s))

\* ORDER BY expire_date ASC (rows with equal dates stay in rowid order)
RECURSIVE SortByExpire(_)
SortByExpire(s) ==
    IF s = <<>> THEN <<>>
    ELSE LET i == CHOOSE i \in 1..Len(s) :
                      /\ \A j \in 1..Len(s) : s[i].expire_date <= s[j].expire_date
                      /\ \A j \in 1..(i - 1) : s[j].expire_date > s[i].expire_date
         IN  <<s[i]>> \o SortByExpire(RemoveAt(s, i))

\* the loop over worksheet.get_all_records()
SheetExpiring(sheet, notification_date) ==
    MapSeq(SheetItem,
           SelectSeq(sheet, LAMBDA r : Strptime(r.expire) <= notification_date))

\* SELECT ... WHERE expire_date <= ? ORDER BY expire_date ASC
BackupExpiring(backup, notification_date) ==
    MapSeq(BackupItem,
           SortByExpire(SelectSeq(backup, LAMBDA r : r.expire_date <= notification_date)))

\* a failed spreadsheet read ending the query with an empty list
get_expiring_items_NoFallback(ws, sheet, backup, t, sheetErr, backupErr) ==
    LET notification_date == t + Timedelta(NOTIFICATION_DAYS_BEFORE)
        expiring_items == IF ws /\ ~sheetErr
                          THEN SheetExpiring(sheet, notification_date)
                          ELSE <<>>
    IN  IF expiring_items # <<>> THEN expiring_items
        ELSE IF backupErr \/ (ws /\ sheetErr) THEN <<>>
        ELSE BackupExpiring(backup, notification_date)

\* DatabaseManager.get_expiring_items at time t.  sheetErr: get_all_records
\* raises (logged, the list stays empty); backupErr: the SELECT raises (the
\* outer except returns []).
get_expiring_items(ws, sheet, backup, t, sheetErr, backupErr) ==
    LET notification_date == t + Timedelta(NOTIFICATION_DAYS_BEFORE)
        expiring_items == IF ws /\ ~sheetErr
                          THEN SheetExpiring(sheet, notification_date)
                          ELSE <<>>
    IN  IF expiring_items # <<>> THEN expiring_items
        ELSE IF backupErr THEN <<>>
        ELSE BackupExpiring(backup, notification_date)

DbGetExpiringItems ==
    /\ \E sheetErr, backupErr \in BOOLEAN :
           ret' = [NoRet EXCEPT !.op = "get_expiring_items",
                                !.items = get_expiring_items(worksheet, sheetRows, backupRows,
                                                           now, sheetErr, backupErr),
                                !.err = sheetErr \/ backupErr,
                                !.sheetErr = sheetErr, !.backupErr = backupErr]
    /\ UNCHANGED <<worksheet, sheetRows, backupRows, now>>

(***************************************************************************)
(* get_all_items                                                           *)
(***************************************************************************)
\* the layout of the date texts add_item writes to the spreadsheet
SheetDateLayout == "%Y-%m-%d %H:%M:%S"
\* the text sqlite3 stores for an aware datetime: isoformat(' '), with the
\* fraction of the second and the UTC offset
BackupDateLayout == "isoformat"

\* one record of worksheet.get_all_records(): the cells of a row under the headers
SheetRecord(r) ==
    [No |-> r.no, NamaItem |-> r.nama_item, Type |-> r.type,
     Participant |-> r.participant,
     CreatedAt |-> [layout |-> SheetDateLayout, at |-> r.created],
     UpdateAt |-> [layout |-> SheetDateLayout, at |-> r.updated],
     Expire |-> [layout |-> SheetDateLayout, at |-> r.expire]]

\* the dict get_all_items builds from a row of the backup table (row[1]..row[7])
BackupRecord(r) ==
    [No |-> r.no, NamaItem |-> r.nama_item, Type |-> r.type,
     Participant |-> r.participant,
     CreatedAt |-> [layout |-> BackupDateLayout, at |-> r.created_at],
     UpdateAt |-> [layout |-> BackupDateLayout, at |-> r.updated_at],
     Expire |-> [layout |-> BackupDateLayout, at |-> r.expire_date]]

\* ORDER BY no ASC (rows with equal numbers stay in rowid order)
RECURSIVE SortByNo(_)
SortByNo(s) ==
    IF s = <<>> THEN <<>>
    ELSE LET i == CHOOSE i \in 1..Len(s) :
                      /\ \A j \in 1..Len(s) : s[i].no <= s[j].no
                      /\ \A j \in 1..(i - 1) : s[j].no > s[i].no
         IN  <<s[i]>> \o SortByNo(RemoveAt(s, i))

\* DatabaseManager.get_all_items.  sheetErr: get_all_records raises; backupErr:
\* the SELECT raises.  Either way the except returns [].
get_all_items(ws, sheet, backup, sheetErr, backupErr) ==
    IF ws
    THEN IF sheetErr THEN <<>> ELSE MapSeq(SheetRecord, sheet)
    ELSE IF backupErr THEN <<>> ELSE MapSeq(BackupRecord, SortByNo(backup))

\* a call of DatabaseManager.get_all_items
DbGetAllItems ==
    /\ \E sheetErr, backupErr \in BOOLEAN :
           ret' = [NoRet EXCEPT !.op = "get_all_items",
                                !.items = get_all_items(worksheet, sheetRows, backupRows,
                                                        sheetErr, backupErr),
                                !.err = sheetErr \/ backupErr,
                                !.sheetErr = sheetErr, !.backupErr = backupErr]
    /\ UNCHANGED <<worksheet, sheetRows, backupRows, now>>

(***************************************************************************)
(* The /add_item command                                                   *)
(***************************************************************************)
\* formats, in the order in which they are tried
formats == <<"%Y-%m-%d", "%d/%m/%Y", "%d-%m-%Y", "%Y/%m/%d", "%d.%m.%Y", "%d %m %Y">>
DateFormats == {formats[k] : k \in 1..Len(formats)}

\* now.date()
Today(t) == t \div TicksPerDay

\* datetime.strptime(date_str, format_str) returns: the text is written in that
\* layout (the layouts differ in the separator or in where the four-digit year
\* stands, so a text written in one is refused by the others)
StrptimeMatches(ds, format_str) == ds.fmt = format_str

\* for format_str in formats: try ... break / except ValueError: continue.
\* The index of the first format that parses the text, 0 when none does.
RECURSIVE TryFormats(_, _)
TryFormats(ds, k) ==
    IF k > Len(formats) THEN 0
    ELSE IF StrptimeMatches(ds, formats[k]) THEN k
    ELSE TryFormats(ds, k + 1)

\* the check against today left out
parse_date_input_AcceptFuture(ds, t) ==
    LET used == TryFormats(ds, 1)
        parsed_date == Timedelta(ds.date) + Strftime(t % TicksPerDay)
    IN  IF used = 0
        THEN [ok |-> FALSE, at |-> 0, err |-> "unrecognised", used |-> 0]
        ELSE [ok |-> TRUE, at |-> parsed_date, err |-> "none", used |-> used]

\* the time of day left at midnight
parse_date_input_Midnight(ds, t) ==
    LET used == TryFormats(ds, 1)
        parsed_date == Timedelta(ds.date)
    IN  IF used = 0
        THEN [ok |-> FALSE, at |-> 0, err |-> "unrecognised", used |-> 0]
        ELSE IF parsed_date \div TicksPerDay > Today(t)
        THEN [ok |-> FALSE, at |-> 0, err |-> "future", used |-> used]
        ELSE [ok |-> TRUE, at |-> parsed_date, err |-> "none", used |-> used]

\* utils.parse_date_input on a text written in layout ds.fmt that names calendar
\* day ds.date: the first format that parses it gives the day, the time of day
\* is replaced by the hour, minute and second of the current time, and a day
\* after today is refused.
parse_date_input(ds, t) ==
    LET used == TryFormats(ds, 1)
        parsed_date == Timedelta(ds.date) + Strftime(t % TicksPerDay)
    IN  IF used = 0
        THEN [ok |-> FALSE, at |-> 0, err |-> "unrecognised", used |-> 0]
        ELSE IF parsed_date \div TicksPerDay > Today(t)
        THEN [ok |-> FALSE, at |-> 0, err |-> "future", used |-> used]
        ELSE [ok |-> TRUE, at |-> parsed_date, err |-> "none", used |-> used]

\* a call with more positional arguments than the callee has parameters raises
\* TypeError before the callee's body runs
RaisesTypeError(nargs, nparams) == nargs > nparams

NoDate == [fmt |-> "", date |-> 0]
TypeInputs == {"unique", "RED", "INVALID"}
DateInputs(t) ==
    {NoDate} \cup [fmt : {"%Y-%m-%d", "%d/%m/%Y", "15 Jan"}, date : {Today(t) - 1, Today(t), Today(t) + 1}]

\* bot.py add_item(interaction, nama_item, tipe, participant, created_date)
cmd_add_item ==
    /\ now <= MaxAddTick
    /\ Len(sheetRows) < MaxItems
    /\ Len(backupRows) < MaxItems
    /\ \E tipe \in TypeInputs, created_date \in DateInputs(now) :
         LET custom == IF created_date = NoDate
                       THEN [ok |-> TRUE, at |-> 0, err |-> "none", used |-> 0]
                       ELSE parse_date_input(created_date, now)
         IN  IF Upper(tipe) \notin ITEM_TYPES
             THEN /\ ret' = [NoRet EXCEPT !.op = "cmd_add_item", !.reply = "invalid_type",
                                          !.tipe = tipe, !.created_date = created_date]
                  /\ UNCHANGED <<sheetRows, backupRows>>
             ELSE IF ~custom.ok
             THEN /\ ret' = [NoRet EXCEPT !.op = "cmd_add_item", !.reply = "invalid_date",
                                          !.tipe = tipe, !.created_date = created_date]
                  /\ UNCHANGED <<sheetRows, backupRows>>
             ELSE IF RaisesTypeError(CmdAddItemArgs, AddItemParams)
             THEN \* except Exception: the 'Terjadi Kesalahan' reply
                  /\ ret' = [NoRet EXCEPT !.op = "cmd_add_item", !.reply = "system_error",
                                          !.valid = TRUE,
                                          !.tipe = tipe, !.created_date = created_date]
                  /\ UNCHANGED <<sheetRows, backupRows>>
             ELSE \E part \in DbParticipants,
                     sheetErr, backupErr, appendFails, insertFails \in BOOLEAN :
                      add_item("cmd_add_item", "Sword", tipe, part,
                                  sheetErr, backupErr, appendFails, insertFails)
    /\ UNCHANGED <<worksheet, now>>

\* time passes, up to tick `limit`
AdvanceClockTo(limit) ==
    /\ now < limit
    /\ now' = now + 1
    /\ ret' = NoRet
    /\ UNCHANGED <<worksheet, sheetRows, backupRows>>

InitDb ==
    /\ worksheet \in BOOLEAN
    /\ sheetRows = <<>>
    /\ backupRows = <<>>
    /\ now = 0
    /\ ret = NoRet

InitAlertIdle ==
    /\ alertItems = <<>>
    /\ caller = "none"
    /\ alertPc = "idle"
    /\ chunkIdx = 0
    /\ sent = <<>>
    /\ success = FALSE
    /\ alertResult = "none"
    /\ tickLog = <<>>

\* RateLimiter.__init__: self.calls = {}; Cache.__init__: self.cache = {}
\* no wrapped function has been called
NoRetry ==
    [pc |-> "idle", max_retries |-> 0, delay |-> 0, attempt |-> 0, invocations |-> 0,
     waits |-> <<>>, failures |-> <<>>, result |-> "none", raised |-> 0]

InitObjIdle ==
    /\ calls = <<>>
    /\ cache = <<>>
    /\ retry = NoRetry

InitUtilIdle ==
    /\ emojiDays = 0
    /\ emojiOut = "none"
    /\ InitObjIdle

\* the process has not been started
InitMainIdle ==
    /\ mainPc = "none"
    /\ running = FALSE
    /\ closed = FALSE
    /\ pending = 0
    /\ shutdownPc = <<>>
    /\ mainLog = <<>>
    /\ exitStatus = "none"

InitListIdle ==
    /\ listPc = "idle"
    /\ listItems = <<>>
    /\ listPage = 0
    /\ listLog = <<>>

InitSchedIdle ==
    /\ runNo = 0
    /\ ready = FALSE
    /\ loopPc = "stopped"
    /\ nextIteration = 0
    /\ checkLog = <<>>
    /\ executing = {}

Init ==
    InitDb /\ InitAlertIdle /\ InitUtilIdle /\ InitMainIdle /\ InitListIdle /\ InitSchedIdle

\* The write side of the store: adds, the /add_item command and the number
\* allocator, while the clock runs through the instants at which items are added.
Next ==
    \/ DbAddItem /\ UNCHANGED <<alertVars, utilVars, mainVars, listVars, schedVars>>
    \/ DbGetNextNumber /\ UNCHANGED <<alertVars, utilVars, mainVars, listVars, schedVars>>
    \/ cmd_add_item /\ UNCHANGED <<alertVars, utilVars, mainVars, listVars, schedVars>>
    \/ AdvanceClockTo(MaxAddTick) /\ UNCHANGED <<alertVars, utilVars, mainVars, listVars, schedVars>>

Spec == Init /\ [][Next]_vars

\* The read side: items are added (their text and numbering play no part in the
\* query), then the clock runs past their expiry while get_expiring_items is called.
NextQuery ==
    \/ DbAddItemOf({<<Tok("Alice"), PadTok("Bob")>>}, {FALSE}) /\ UNCHANGED <<alertVars, utilVars, mainVars, listVars, schedVars>>
    \/ DbGetExpiringItems /\ UNCHANGED <<alertVars, utilVars, mainVars, listVars, schedVars>>
    \/ DbGetAllItems /\ UNCHANGED <<alertVars, utilVars, mainVars, listVars, schedVars>>
    \/ AdvanceClockTo(MaxTick) /\ UNCHANGED <<alertVars, utilVars, mainVars, listVars, schedVars>>

SpecQuery == Init /\ [][NextQuery]_vars

(***************************************************************************)
(* NotificationManager.send_expiring_items_alert and the daily check       *)
(***************************************************************************)
\* sorted() of the names used as inputs
\* (code-point order: capital letters come before small ones)
NameOrder == <<"Alice", "Bob", "Cara", "alice">>
Sorted(S) == SelectSeq(NameOrder, LAMBDA n : n \in S)

\* the names gathered from the items of the first embed only
ParticipantNames_FirstPage(items) ==
    UNION { {Strip(Split(items[i].participant)[k]) :
                 k \in 1..Len(Split(items[i].participant))} :
            i \in 1..Min(PageSize, Len(items)) }
        \ {""}

\* participant_names: every non-blank stripped piece of every item
ParticipantNames(items) ==
    UNION { {Strip(Split(items[i].participant)[k]) :
                 k \in 1..Len(Split(items[i].participant))} : i \in 1..Len(items) }
        \ {""}

\* (expire_date - datetime.now()).days
DaysUntil(expire_date, t) == (expire_date - t) \div TicksPerDay

\* one entry of items_list: marker, name, type, participants and status text
ItemSummary(item, t) ==
    LET days_until_expire == DaysUntil(item.expire_date, t)
        status == IF days_until_expire <= 0
                  THEN [emoji |-> "red", text |-> "EXPIRED", days |-> 0]
                  ELSE IF days_until_expire <= 3
                  THEN [emoji |-> "red", text |-> "hari lagi", days |-> days_until_expire]
                  ELSE [emoji |-> "yellow", text |-> "hari lagi", days |-> days_until_expire]
    IN  [status_emoji |-> status.emoji, status_text |-> status.text, days |-> status.days,
         nama_item |-> item.nama_item, type |-> item.type,
         participant |-> item.participant]

ItemsList(items, t) == MapSeq(LAMBDA item : ItemSummary(item, t), items)

\* the first embed, posted with the @here content
MainEmbed(items, t) ==
    [title |-> "PERINGATAN: Item Akan Expire!",
     count |-> Len(items),
     summaries |-> SubSeq(ItemsList(items, t), 1, Min(PageSize, Len(items))),
     hasRoster |-> TRUE, roster |-> Sorted(ParticipantNames(items)),
     hasAction |-> TRUE, hasFooter |-> TRUE, index |-> 0, content |-> TRUE]

\* a continuation embed that repeats the roster of its own items
AdditionalEmbed_WithRoster(i, chunk) ==
    [title |-> "Item Expire - Lanjutan", count |-> 0, summaries |-> chunk,
     hasRoster |-> TRUE, roster |-> Sorted(ParticipantNames(chunk)),
     hasAction |-> FALSE, hasFooter |-> FALSE, index |-> i, content |-> FALSE]

\* additional_embed number i, posted without content
AdditionalEmbed(i, chunk) ==
    [title |-> "Item Expire - Lanjutan", count |-> 0, summaries |-> chunk,
     hasRoster |-> FALSE, roster |-> <<>>,
     hasAction |-> FALSE, hasFooter |-> FALSE, index |-> i, content |-> FALSE]

\* the slice taken one item too far
RemainingItems_SkipOne(items_list) == SubSeq(items_list, PageSize + 2, Len(items_list))

\* remaining_items = items_list[10:]
RemainingItems(items_list) == SubSeq(items_list, PageSize + 1, Len(items_list))

\* [remaining_items[i:i+10] for i in range(0, len(remaining_items), 10)]
Chunks(remaining) ==
    [k \in 1..((Len(remaining) + PageSize - 1) \div PageSize) |->
        SubSeq(remaining, (k - 1) * PageSize + 1, Min(k * PageSize, Len(remaining)))]

AlertChunks == Chunks(RemainingItems(ItemsList(alertItems, now)))

\* the early return that never holds
NothingToSend_Never(items) == FALSE

\* if not expiring_items: return True
NothingToSend(items) == items = <<>>

PyBool(b) == IF b THEN "True" ELSE "False"

\* the value returned being whether every post was delivered
AlertReturn_AllDelivered(first, posts) ==
    PyBool(\A i \in 1..Len(posts) : posts[i].ok)

\* return success: the outcome of the first post, whatever became of the
\* posts made after it
AlertReturn(first, posts) == PyBool(first)

\* logger.info("Sent notification for ... expiring items"): the line of
\* check_expiring_items after its await of the alert, whose value it drops
TickLogAfter(pc, who, log) ==
    IF pc = "done" /\ who = "tick" THEN Append(log, "Sent notification") ELSE log

\* a direct call of send_expiring_items_alert(alertItems), up to its first await
SendExpiringItemsAlert ==
    /\ alertPc = "idle"
    /\ caller' = "direct"
    /\ IF NothingToSend(alertItems)
       THEN alertPc' = "done" /\ alertResult' = "True"
       ELSE alertPc' = "main" /\ alertResult' = alertResult
    /\ UNCHANGED <<alertItems, chunkIdx, sent, success, tickLog>>

\* ClanStorageBot.check_expiring_items: one run of the daily loop body, with
\* alertItems the list db.get_expiring_items() returned
CheckExpiringItems ==
    /\ alertPc = "idle"
    /\ caller' = "tick"
    /\ IF alertItems # <<>>
       THEN IF NothingToSend(alertItems)
            THEN alertPc' = "done" /\ alertResult' = "True"
            ELSE alertPc' = "main" /\ alertResult' = alertResult
       ELSE alertPc' = "done" /\ alertResult' = alertResult
    /\ tickLog' = IF alertItems # <<>> THEN TickLogAfter(alertPc', "tick", tickLog)
                  ELSE tickLog
    /\ UNCHANGED <<alertItems, chunkIdx, sent, success>>

\* success = await self.send_webhook_message(embed, content); ok: status 204
SendMain ==
    /\ alertPc = "main"
    /\ \E ok \in BOOLEAN :
         /\ sent' = Append(sent, [embed |-> MainEmbed(alertItems, now), ok |-> ok])
         /\ success' = ok
         /\ IF Len(alertItems) > PageSize /\ AlertChunks # <<>>
            THEN alertPc' = "cont" /\ chunkIdx' = 1 /\ alertResult' = alertResult
            ELSE /\ alertPc' = "done" /\ chunkIdx' = chunkIdx
                 /\ alertResult' = AlertReturn(ok, sent')
    /\ tickLog' = TickLogAfter(alertPc', caller, tickLog)
    /\ UNCHANGED <<alertItems, caller>>

\* the pass in which a post that failed is made a second time
SendContinuation_Retry ==
    /\ alertPc = "cont"
    /\ \E ok, again \in BOOLEAN :
         LET post == [embed |-> AdditionalEmbed(chunkIdx, AlertChunks[chunkIdx]), ok |-> ok]
         IN  sent' = IF ok THEN Append(sent, post)
                     ELSE sent \o <<post, [post EXCEPT !.ok = again]>>
    /\ IF chunkIdx = Len(AlertChunks)
       THEN /\ alertPc' = "done" /\ chunkIdx' = chunkIdx
            /\ alertResult' = AlertReturn(success, sent')
       ELSE alertPc' = "cont" /\ chunkIdx' = chunkIdx + 1 /\ alertResult' = alertResult
    /\ tickLog' = TickLogAfter(alertPc', caller, tickLog)
    /\ UNCHANGED <<alertItems, caller, success>>

\* one pass of the loop over chunks: await self.send_webhook_message(additional_embed)
SendContinuation ==
    /\ alertPc = "cont"
    /\ \E ok \in BOOLEAN :
         sent' = Append(sent, [embed |-> AdditionalEmbed(chunkIdx, AlertChunks[chunkIdx]),
                               ok |-> ok])
    /\ IF chunkIdx = Len(AlertChunks)
       THEN /\ alertPc' = "done" /\ chunkIdx' = chunkIdx
            /\ alertResult' = AlertReturn(success, sent')
       ELSE alertPc' = "cont" /\ chunkIdx' = chunkIdx + 1 /\ alertResult' = alertResult
    /\ tickLog' = TickLogAfter(alertPc', caller, tickLog)
    /\ UNCHANGED <<alertItems, caller, success>>

\* Inputs of the alert: n items numbered 1..n, participants and expiry dates
\* taken round-robin from small pools, shifted by the variant v.  In the last
\* variant the items after the first ten belong to a participant no earlier
\* item names.
ParticipantPool ==
    << <<Tok("Alice")>>,                             \* "Alice"
       <<Tok("Bob"), PadTok("Alice")>>,              \* "Bob, Alice"
       <<Tok("Cara"), Tok(""), PadTok("Bob")>> >>    \* "Cara,, Bob"
ExpireOffsets ==
    <<0 - TicksPerDay - 1, 0, 1, TicksPerDay, Timedelta(3), Timedelta(3) + 1,
      Timedelta(NOTIFICATION_DAYS_BEFORE)>>
AlertVariants == 0..3
AlertItem(i, v, t) ==
    [no |-> i, nama_item |-> i, type |-> "UNIQUE",
     participant |-> IF v = 3 /\ i > PageSize
                     THEN <<PadTok("alice")>>             \* " alice "
                     ELSE ParticipantPool[((i + v) % Len(ParticipantPool)) + 1],
     expire_date |-> t + ExpireOffsets[((i * (v + 1)) % Len(ExpireOffsets)) + 1]]
AlertInputs(t) ==
    {[i \in 1..n |-> AlertItem(i, v, t)] : n \in 0..MaxAlertItems, v \in AlertVariants}

InitAlert ==
    /\ worksheet = FALSE
    /\ sheetRows = <<>>
    /\ backupRows = <<>>
    /\ ret = NoRet
    /\ now = Timedelta(ITEM_EXPIRY_DAYS)
    /\ alertItems \in AlertInputs(now)
    /\ caller = "none"
    /\ alertPc = "idle"
    /\ chunkIdx = 0
    /\ sent = <<>>
    /\ success = FALSE
    /\ alertResult = "none"
    /\ tickLog = <<>>
    /\ InitUtilIdle
    /\ InitMainIdle
    /\ InitListIdle
    /\ InitSchedIdle

NextAlert ==
    \/ SendExpiringItemsAlert /\ UNCHANGED <<dbVars, now, utilVars, mainVars, listVars, schedVars>>
    \/ CheckExpiringItems /\ UNCHANGED <<dbVars, now, utilVars, mainVars, listVars, schedVars>>
    \/ SendMain /\ UNCHANGED <<dbVars, now, utilVars, mainVars, listVars, schedVars>>
    \/ SendContinuation /\ UNCHANGED <<dbVars, now, utilVars, mainVars, listVars, schedVars>>

SpecAlert == InitAlert /\ [][NextAlert]_vars

(***************************************************************************)
(* utils.get_item_status_emoji                                             *)
(***************************************************************************)
\* the second threshold taken strictly
get_item_status_emoji_Strict(days_until_expire) ==
    IF days_until_expire <= 0 THEN "red"
    ELSE IF days_until_expire < 3 THEN "red"
    ELSE IF days_until_expire <= 7 THEN "yellow"
    ELSE "green"

get_item_status_emoji(days_until_expire) ==
    IF days_until_expire <= 0 THEN "red"
    ELSE IF days_until_expire <= 3 THEN "red"
    ELSE IF days_until_expire <= 7 THEN "yellow"
    ELSE "green"

GetItemStatusEmoji ==
    /\ emojiOut = "none"
    /\ emojiOut' = get_item_status_emoji(emojiDays)
    /\ UNCHANGED emojiDays

InitUtil ==
    /\ worksheet = FALSE
    /\ sheetRows = <<>>
    /\ backupRows = <<>>
    /\ ret = NoRet
    /\ now = 0
    /\ InitAlertIdle
    /\ emojiDays \in (0 - StatusDayBound)..StatusDayBound
    /\ emojiOut = "none"
    /\ InitObjIdle
    /\ InitMainIdle
    /\ InitListIdle
    /\ InitSchedIdle

NextUtil ==
    \/ GetItemStatusEmoji /\ UNCHANGED <<dbVars, now, alertVars, objVars, mainVars, listVars, schedVars>>

SpecUtil == InitUtil /\ [][NextUtil]_vars

(***************************************************************************)
(* utils.parse_date_input                                                  *)
(***************************************************************************)
\* date texts: written in one of the six layouts or in one of two others, naming
\* yesterday, today or tomorrow
ParseInputs(t) ==
    [fmt : DateFormats \cup {"15 Jan", "%Y.%m.%d"},
     date : {Today(t) - 1, Today(t), Today(t) + 1}]

\* a call of parse_date_input(date_str) at the current time
ParseDateInput ==
    /\ \E ds \in ParseInputs(now) :
         LET r == parse_date_input(ds, now)
         IN  ret' = [NoRet EXCEPT !.op = "parse_date_input", !.created_date = ds,
                                  !.ok = r.ok, !.at = r.at, !.reply = r.err,
                                  !.used = r.used]
    /\ UNCHANGED <<worksheet, sheetRows, backupRows, now>>

InitParse ==
    /\ worksheet = FALSE
    /\ sheetRows = <<>>
    /\ backupRows = <<>>
    /\ ret = NoRet
    /\ now \in 0..MaxParseTick
    /\ InitAlertIdle
    /\ InitUtilIdle
    /\ InitMainIdle
    /\ InitListIdle
    /\ InitSchedIdle

NextParse ==
    \/ ParseDateInput /\ UNCHANGED <<alertVars, utilVars, mainVars, listVars, schedVars>>

SpecParse == InitParse /\ [][NextParse]_vars

(***************************************************************************)
(* utils.sanitize_participant_names                                        *)
(***************************************************************************)
\* names = [name.strip() for name in participants.split(',') if name.strip()]
StrippedNames(participants) ==
    SelectSeq(MapSeq(Strip, Split(participants)), LAMBDA name : name # "")

\* unique_names: a name is appended unless it is already in the list
RECURSIVE UniqueNames(_, _)
UniqueNames(names, unique_names) ==
    IF names = <<>> THEN unique_names
    ELSE UniqueNames(Tail(names),
                     IF \E k \in 1..Len(unique_names) : unique_names[k] = Head(names)
                     THEN unique_names
                     ELSE Append(unique_names, Head(names)))

\* ', '.join(names): the text whose pieces are the names, every one after the
\* first preceded by a blank; the empty text (one empty piece) for no names
Join(names) ==
    IF names = <<>> THEN <<Tok("")>>
    ELSE [k \in 1..Len(names) |-> IF k = 1 THEN Tok(names[k]) ELSE PadTok(names[k])]

\* the names joined without removing duplicates
sanitize_participant_names_KeepDuplicates(participants) ==
    Join(StrippedNames(participants))

sanitize_participant_names(participants) ==
    Join(UniqueNames(StrippedNames(participants), <<>>))

\* the texts given to it: one to MaxPieces comma-separated pieces, each a name or
\* nothing, with or without blanks around it
SanitizeNames == {"", "Alice", "Bob", "Cara"}
SanitizePieces == {Tok(n) : n \in SanitizeNames} \cup {PadTok(n) : n \in SanitizeNames}
SanitizeInputs == UNION {[1..k -> SanitizePieces] : k \in 1..MaxPieces}

\* a call of sanitize_participant_names(participants)
SanitizeParticipantNames ==
    /\ ret = NoRet
    /\ \E participants \in SanitizeInputs :
         ret' = [NoRet EXCEPT !.op = "sanitize_participant_names",
                              !.arg = participants,
                              !.out = sanitize_participant_names(participants)]
    /\ UNCHANGED <<worksheet, sheetRows, backupRows, now>>

InitSanitize ==
    /\ worksheet = FALSE
    /\ sheetRows = <<>>
    /\ backupRows = <<>>
    /\ ret = NoRet
    /\ now = 0
    /\ InitAlertIdle
    /\ InitUtilIdle
    /\ InitMainIdle
    /\ InitListIdle
    /\ InitSchedIdle

NextSanitize ==
    \/ SanitizeParticipantNames /\ UNCHANGED <<alertVars, utilVars, mainVars, listVars, schedVars>>

SpecSanitize == InitSanitize /\ [][NextSanitize]_vars

(***************************************************************************)
(* utils.RateLimiter                                                       *)
(***************************************************************************)
\* timedelta.seconds: the seconds field of the normalised difference, which
\* leaves out its whole days (and its fraction of a second)
TimedeltaSeconds(d) == (d % TicksPerDay) \div TicksPerSecond

\* the calls of an identifier that survive the pruning at time t
RecentCalls(call_times, t, time_window) ==
    SelectSeq(call_times, LAMBDA call_time : TimedeltaSeconds(t - call_time) < time_window)

Identifiers == {"user1", "user2"}

\* RateLimiter(max_calls=LimiterMaxCalls, time_window=LimiterWindow).is_allowed(identifier)
IsAllowed ==
    /\ \E identifier \in Identifiers :
         LET kept == RecentCalls(calls[identifier], now, LimiterWindow)
             allowed == Len(kept) < LimiterMaxCalls
         IN  /\ calls' = [calls EXCEPT ![identifier] =
                             IF allowed THEN Append(kept, now) ELSE kept]
             /\ ret' = [NoRet EXCEPT !.op = "is_allowed", !.arg = identifier,
                                      !.ok = allowed]
    /\ UNCHANGED <<worksheet, sheetRows, backupRows, now, cache, retry>>

\* the clock runs for one day and one time window
LimiterMaxTick == Timedelta(1) + LimiterWindow * TicksPerSecond

InitLimiter ==
    /\ worksheet = FALSE
    /\ sheetRows = <<>>
    /\ backupRows = <<>>
    /\ ret = NoRet
    /\ now = 0
    /\ InitAlertIdle
    /\ emojiDays = 0
    /\ emojiOut = "none"
    /\ calls = [identifier \in Identifiers |-> <<>>]
    /\ cache = <<>>
    /\ retry = NoRetry
    /\ InitMainIdle
    /\ InitListIdle
    /\ InitSchedIdle

NextLimiter ==
    \/ IsAllowed /\ UNCHANGED <<alertVars, emojiVars, mainVars, listVars, schedVars>>
    \/ AdvanceClockTo(LimiterMaxTick) /\ UNCHANGED <<alertVars, utilVars, mainVars, listVars, schedVars>>

SpecLimiter == InitLimiter /\ [][NextLimiter]_vars

(***************************************************************************)
(* utils.Cache                                                             *)
(***************************************************************************)
\* the names utils.py binds at module level from the datetime module:
\* `from datetime import datetime` only (timedelta is imported inside
\* calculate_expire_date, local to that function)
UtilsDatetimeNames == {"datetime"}

\* evaluating the name timedelta in a method of utils.py raises NameError
TimedeltaRaisesNameError == "timedelta" \notin UtilsDatetimeNames

CacheKeys == {"key1", "key2"}
CacheValues == {"value1", "value2"}
\* set(key, value) without ttl
NoTtl == 0 - 1
CacheTtls == {NoTtl, 0, 1, CacheDefaultTtl + 1}
NoEntry == [present |-> FALSE, value |-> "None", expiry |-> 0]

\* ttl = ttl or self.default_ttl
EffectiveTtl(ttl) == IF ttl = NoTtl \/ ttl = 0 THEN CacheDefaultTtl ELSE ttl

\* Cache(default_ttl=CacheDefaultTtl).set(key, value, ttl)
CacheSet ==
    /\ \E key \in CacheKeys, value \in CacheValues, ttl \in CacheTtls :
         IF TimedeltaRaisesNameError
         THEN /\ cache' = cache
              /\ ret' = [NoRet EXCEPT !.op = "cache_set", !.arg = <<key, value>>,
                                       !.num = ttl, !.reply = "NameError"]
         ELSE /\ cache' = [cache EXCEPT ![key] =
                             [present |-> TRUE, value |-> value,
                              expiry |-> now + EffectiveTtl(ttl) * TicksPerSecond]]
              /\ ret' = [NoRet EXCEPT !.op = "cache_set", !.arg = <<key, value>>,
                                       !.num = ttl, !.reply = "None"]
    /\ UNCHANGED <<worksheet, sheetRows, backupRows, now, calls, retry>>

\* Cache.get(key)
CacheGet ==
    /\ \E key \in CacheKeys :
         IF cache[key].present
         THEN IF now < cache[key].expiry
              THEN /\ cache' = cache
                   /\ ret' = [NoRet EXCEPT !.op = "cache_get", !.arg = <<key>>,
                                            !.reply = cache[key].value]
              ELSE /\ cache' = [cache EXCEPT ![key] = NoEntry]
                   /\ ret' = [NoRet EXCEPT !.op = "cache_get", !.arg = <<key>>,
                                            !.reply = "None"]
         ELSE /\ cache' = cache
              /\ ret' = [NoRet EXCEPT !.op = "cache_get", !.arg = <<key>>,
                                       !.reply = "None"]
    /\ UNCHANGED <<worksheet, sheetRows, backupRows, now, calls, retry>>

\* the clock runs until the longest ttl has run out
CacheMaxTick == (CacheDefaultTtl + 1) * TicksPerSecond

InitCache ==
    /\ worksheet = FALSE
    /\ sheetRows = <<>>
    /\ backupRows = <<>>
    /\ ret = NoRet
    /\ now = 0
    /\ InitAlertIdle
    /\ emojiDays = 0
    /\ emojiOut = "none"
    /\ calls = <<>>
    /\ cache = [key \in CacheKeys |-> NoEntry]
    /\ retry = NoRetry
    /\ InitMainIdle
    /\ InitListIdle
    /\ InitSchedIdle

NextCache ==
    \/ CacheSet /\ UNCHANGED <<alertVars, emojiVars, mainVars, listVars, schedVars>>
    \/ CacheGet /\ UNCHANGED <<alertVars, emojiVars, mainVars, listVars, schedVars>>
    \/ AdvanceClockTo(CacheMaxTick) /\ UNCHANGED <<alertVars, utilVars, mainVars, listVars, schedVars>>

SpecCache == InitCache /\ [][NextCache]_vars

(***************************************************************************)
(* utils.chunk_list                                                        *)
(***************************************************************************)
\* range(start, stop, step) for step >= 1, as the sequence of its values
RECURSIVE Range(_, _, _)
Range(start, stop, step) ==
    IF start >= stop THEN <<>> ELSE <<start>> \o Range(start + step, stop, step)

\* lst[i:j] for 0 <= i <= j (indices from 0, j cut to the length)
Slice(lst, i, j) == SubSeq(lst, i + 1, Min(j, Len(lst)))

\* the chunks without an incomplete last one
chunk_list_DropTail(lst, chunk_size) ==
    MapSeq(LAMBDA i : Slice(lst, i, i + chunk_size),
           Range(0, Len(lst) - (Len(lst) % chunk_size), chunk_size))

\* [lst[i:i + chunk_size] for i in range(0, len(lst), chunk_size)]
chunk_list(lst, chunk_size) ==
    MapSeq(LAMBDA i : Slice(lst, i, i + chunk_size), Range(0, Len(lst), chunk_size))

\* the lists given to it: list(range(n)) for n up to MaxChunkLen
ChunkInputs == {[i \in 1..n |-> i - 1] : n \in 0..MaxChunkLen}

\* a call of chunk_list(lst, chunk_size) with chunk_size >= 1
ChunkList ==
    /\ ret = NoRet
    /\ \E lst \in ChunkInputs, chunk_size \in 1..MaxChunkSize :
         ret' = [NoRet EXCEPT !.op = "chunk_list", !.arg = lst, !.num = chunk_size,
                              !.out = chunk_list(lst, chunk_size)]
    /\ UNCHANGED <<worksheet, sheetRows, backupRows, now>>

InitChunk ==
    /\ worksheet = FALSE
    /\ sheetRows = <<>>
    /\ backupRows = <<>>
    /\ ret = NoRet
    /\ now = 0
    /\ InitAlertIdle
    /\ InitUtilIdle
    /\ InitMainIdle
    /\ InitListIdle
    /\ InitSchedIdle

NextChunk ==
    \/ ChunkList /\ UNCHANGED <<alertVars, utilVars, mainVars, listVars, schedVars>>

SpecChunk == InitChunk /\ [][NextChunk]_vars

(***************************************************************************)
(* utils.retry_on_failure                                                  *)
(***************************************************************************)
\* asyncio.sleep(delay * (attempt + 1))
RetryWait(delay, attempt) == delay * (attempt + 1)

\* wrapper(*args, **kwargs) of retry_on_failure(max_retries, delay) is called:
\* `for attempt in range(max_retries)` starts, or ends at once when
\* max_retries is 0 and the wrapper returns None
RetryCall ==
    /\ retry.pc = "idle"
    /\ \E max_retries \in 0..MaxRetries, delay \in 1..MaxRetryDelay :
         retry' = [NoRetry EXCEPT !.max_retries = max_retries, !.delay = delay,
                                  !.pc = IF max_retries = 0 THEN "returned" ELSE "call",
                                  !.result = IF max_retries = 0 THEN "None" ELSE "none"]
    /\ UNCHANGED <<worksheet, sheetRows, backupRows, now, ret, calls, cache>>

\* one pass of the loop body: `return await func(...)`, or the except clause
\* when func raised (the exception of invocation n is numbered n)
RetryAttempt ==
    /\ retry.pc = "call"
    /\ \E raises \in BOOLEAN :
         LET n == retry.invocations + 1
         IN  retry' =
               IF ~raises
               THEN [retry EXCEPT !.invocations = n, !.pc = "returned",
                                  !.result = "value"]
               ELSE IF retry.attempt = retry.max_retries - 1
               THEN [retry EXCEPT !.invocations = n, !.pc = "raised",
                                  !.failures = Append(@, n),
                                  !.result = "exception", !.raised = n]
               ELSE [retry EXCEPT !.invocations = n, !.pc = "sleep",
                                  !.failures = Append(@, n)]
    /\ UNCHANGED <<worksheet, sheetRows, backupRows, now, ret, calls, cache>>

\* await asyncio.sleep(delay * (attempt + 1)), then the next pass of the loop
RetrySleep ==
    /\ retry.pc = "sleep"
    /\ LET wait == RetryWait(retry.delay, retry.attempt)
       IN  /\ retry' = [retry EXCEPT !.waits = Append(@, wait),
                                      !.attempt = @ + 1, !.pc = "call"]
           /\ now' = now + wait * TicksPerSecond
    /\ UNCHANGED <<worksheet, sheetRows, backupRows, ret, calls, cache>>

InitRetry ==
    /\ worksheet = FALSE
    /\ sheetRows = <<>>
    /\ backupRows = <<>>
    /\ ret = NoRet
    /\ now = 0
    /\ InitAlertIdle
    /\ InitUtilIdle
    /\ InitMainIdle
    /\ InitListIdle
    /\ InitSchedIdle

NextRetry ==
    \/ RetryCall /\ UNCHANGED <<alertVars, emojiVars, mainVars, listVars, schedVars>>
    \/ RetryAttempt /\ UNCHANGED <<alertVars, emojiVars, mainVars, listVars, schedVars>>
    \/ RetrySleep /\ UNCHANGED <<alertVars, emojiVars, mainVars, listVars, schedVars>>

SpecRetry == InitRetry /\ [][NextRetry]_vars

(***************************************************************************)
(* The /list_items command                                                 *)
(***************************************************************************)
items_per_page == 10
\* asyncio.sleep(1) between two pages
PageDelaySeconds == 1

\* total_pages = (len(items) + items_per_page - 1) // items_per_page
TotalPages(items) == (Len(items) + items_per_page - 1) \div items_per_page

\* page_items = items[start_idx:end_idx]
PageItems(items, page) ==
    SubSeq(items, page * items_per_page + 1,
           Min((page + 1) * items_per_page, Len(items)))

\* datetime.strptime(text, '%Y-%m-%d %H:%M:%S') raises ValueError on a text in
\* another layout
StrptimeRaises(text) == text.layout # SheetDateLayout

\* status_emoji = green if days > 7 else yellow if days > 0 else red
ListMarker(days_until_expire) ==
    IF days_until_expire > 7 THEN "green"
    ELSE IF days_until_expire > 0 THEN "yellow"
    ELSE "red"

\* the field added to the embed for one item
ListField(item, t) ==
    LET days_until_expire == DaysUntil(Strptime(item.Expire.at), t)
    IN  [status_emoji |-> ListMarker(days_until_expire), No |-> item.No,
         days |-> days_until_expire]

NoListEntry ==
    [kind |-> "none", page |-> 0, total |-> 0, count |-> 0, fields |-> <<>>,
     ok |-> FALSE, secs |-> 0]

\* the embed of page `page` (0-based), titled page+1/total_pages
PageEmbed(items, page, t) ==
    [NoListEntry EXCEPT !.kind = "page", !.page = page + 1,
                        !.total = TotalPages(items), !.count = Len(items),
                        !.fields = MapSeq(LAMBDA item : ListField(item, t),
                                          PageItems(items, page))]

\* /list_items is invoked: await interaction.response.defer()
ListItemsStart ==
    /\ listPc = "idle"
    /\ listPc' = "fetch"
    /\ UNCHANGED <<listItems, listPage, listLog>>

\* items = bot.db.get_all_items(), then the branch on `not items`
ListFetch ==
    /\ listPc = "fetch"
    /\ \E sheetErr, backupErr \in BOOLEAN :
         LET items == get_all_items(worksheet, sheetRows, backupRows, sheetErr, backupErr)
         IN  /\ listItems' = items
             /\ listPc' = IF items = <<>> THEN "empty" ELSE "page"
    /\ listPage' = 0
    /\ UNCHANGED listLog

\* await interaction.followup.send(embed=<Storage Kosong>); ok: the send returns
ListSendEmpty ==
    /\ listPc = "empty"
    /\ \E ok \in BOOLEAN :
         /\ listLog' = Append(listLog, [NoListEntry EXCEPT !.kind = "empty", !.ok = ok])
         /\ listPc' = IF ok THEN "done" ELSE "error"
    /\ UNCHANGED <<listItems, listPage>>

\* one pass of `for page in range(total_pages)` up to the send: the embed is
\* built (strptime may raise) and sent; a raise leaves the loop for the except
ListSendPage ==
    /\ listPc = "page"
    /\ IF \E i \in 1..Len(PageItems(listItems, listPage)) :
              StrptimeRaises(PageItems(listItems, listPage)[i].Expire)
       THEN listPc' = "error" /\ listLog' = listLog
       ELSE \E ok \in BOOLEAN :
              /\ listLog' = Append(listLog,
                                   [PageEmbed(listItems, listPage, now) EXCEPT !.ok = ok])
              /\ listPc' = IF ~ok THEN "error"
                           ELSE IF listPage < TotalPages(listItems) - 1 THEN "sleep"
                           ELSE "done"
    /\ UNCHANGED <<listItems, listPage>>

\* if page < total_pages - 1: await asyncio.sleep(1), then the next pass
ListSleep ==
    /\ listPc = "sleep"
    /\ listLog' = Append(listLog, [NoListEntry EXCEPT !.kind = "sleep", !.ok = TRUE,
                                                      !.secs = PageDelaySeconds])
    /\ listPage' = listPage + 1
    /\ listPc' = "page"
    /\ UNCHANGED listItems

\* except Exception: the 'Terjadi Kesalahan' followup
ListSendError ==
    /\ listPc = "error"
    /\ \E ok \in BOOLEAN :
         listLog' = Append(listLog, [NoListEntry EXCEPT !.kind = "error", !.ok = ok])
    /\ listPc' = "done"
    /\ UNCHANGED <<listItems, listPage>>

\* The store /list_items reads: n items numbered 1..n as add_item wrote them, the
\* i-th created so that it expires ListExpireOffsets[..] after the listing.
ListExpireOffsets ==
    <<0 - TicksPerDay - 1, 0, 1, TicksPerDay, Timedelta(3), Timedelta(3) + 1,
      Timedelta(4), Timedelta(NOTIFICATION_DAYS_BEFORE),
      Timedelta(NOTIFICATION_DAYS_BEFORE + 1), Timedelta(ITEM_EXPIRY_DAYS) - 1>>
ListVariants == 0..2
ListCreated(i, v, t) ==
    t + ListExpireOffsets[((i * (v + 1)) % Len(ListExpireOffsets)) + 1]
      - Timedelta(ITEM_EXPIRY_DAYS)
ListSheetRows(n, v, t) ==
    [i \in 1..n |-> SheetRow(i, i, "UNIQUE", <<Tok("Alice")>>, ListCreated(i, v, t))]
ListBackupRows(n, v, t, synced) ==
    [i \in 1..n |-> BackupRow(i, i, "UNIQUE", <<Tok("Alice")>>, ListCreated(i, v, t), synced)]

\* the listing starts one day and one tick after the oldest item's expiry
ListStartTick == Timedelta(ITEM_EXPIRY_DAYS + 1) + 1

InitList ==
    /\ now = ListStartTick
    /\ worksheet \in BOOLEAN
    /\ \E n \in 0..MaxListItems, v \in ListVariants :
         /\ sheetRows = IF worksheet THEN ListSheetRows(n, v, now) ELSE <<>>
         /\ backupRows = ListBackupRows(n, v, now, worksheet)
    /\ ret = NoRet
    /\ InitAlertIdle
    /\ InitUtilIdle
    /\ InitMainIdle
    /\ InitListIdle
    /\ InitSchedIdle

NextList ==
    \/ ListItemsStart /\ UNCHANGED <<dbVars, now, alertVars, utilVars, mainVars, schedVars>>
    \/ ListFetch /\ UNCHANGED <<dbVars, now, alertVars, utilVars, mainVars, schedVars>>
    \/ ListSendEmpty /\ UNCHANGED <<dbVars, now, alertVars, utilVars, mainVars, schedVars>>
    \/ ListSendPage /\ UNCHANGED <<dbVars, now, alertVars, utilVars, mainVars, schedVars>>
    \/ ListSleep /\ UNCHANGED <<dbVars, now, alertVars, utilVars, mainVars, schedVars>>
    \/ ListSendError /\ UNCHANGED <<dbVars, now, alertVars, utilVars, mainVars, schedVars>>

SpecList == InitList /\ [][NextList]_vars

(***************************************************************************)
(* The check_expiring_items loop: @tasks.loop(hours=24), started by        *)
(* setup_hook, its before_loop waiting for the connection to be ready      *)
(***************************************************************************)
LoopHours == 24
\* the loop's period on the clock
LoopPeriod == (LoopHours * TicksPerDay) \div 24

\* the loop's first iteration not held back until the connection is ready
WaitUntilReady_NoGate == TRUE

\* before_check_expiring_items: await self.wait_until_ready()
WaitUntilReady == ready

ResetAlert ==
    /\ alertItems' = <<>>
    /\ caller' = "none"
    /\ alertPc' = "idle"
    /\ chunkIdx' = 0
    /\ sent' = <<>>
    /\ success' = FALSE
    /\ alertResult' = "none"
    /\ tickLog' = <<>>

\* the process starts: setup_hook calls self.check_expiring_items.start(), and
\* the loop task begins with before_loop
ProcessStart ==
    /\ loopPc = "stopped"
    /\ runNo < MaxRuns
    /\ runNo' = runNo + 1
    /\ ready' = FALSE
    /\ loopPc' = "before_loop"
    /\ UNCHANGED <<nextIteration, checkLog>>

\* the connection becomes ready (on_ready)
OnReady ==
    /\ loopPc # "stopped"
    /\ ~ready
    /\ ready' = TRUE
    /\ UNCHANGED <<runNo, loopPc, nextIteration, checkLog>>

\* before_loop returns; the first iteration is due at once
BeforeLoopDone ==
    /\ loopPc = "before_loop"
    /\ WaitUntilReady
    /\ loopPc' = "due"
    /\ nextIteration' = now
    /\ UNCHANGED <<runNo, ready, checkLog>>

\* the body of ClanStorageBot.check_expiring_items up to its first await:
\* expiring_items = self.db.get_expiring_items(), then the alert if any
check_expiring_items ==
    /\ alertPc = "idle"
    /\ caller' = "tick"
    /\ \E sheetErr, backupErr \in BOOLEAN :
         LET expiring_items == get_expiring_items(worksheet, sheetRows, backupRows,
                                                  now, sheetErr, backupErr)
         IN  /\ alertItems' = expiring_items
             /\ IF expiring_items # <<>> /\ ~NothingToSend(expiring_items)
                THEN alertPc' = "main" /\ alertResult' = alertResult
                ELSE IF expiring_items # <<>>
                THEN alertPc' = "done" /\ alertResult' = "True"
                ELSE alertPc' = "done" /\ alertResult' = alertResult
             /\ tickLog' = IF expiring_items # <<>>
                           THEN TickLogAfter(alertPc', "tick", tickLog)
                           ELSE tickLog
    /\ UNCHANGED <<chunkIdx, sent, success>>

\* an iteration of the loop begins once its time has come; the next one is due a
\* period after this one was
LoopBody ==
    /\ loopPc = "due"
    /\ now >= nextIteration
    /\ Len(checkLog) < MaxChecks
    /\ check_expiring_items
    /\ loopPc' = "body"
    /\ nextIteration' = nextIteration + LoopPeriod
    /\ checkLog' = Append(checkLog, [at |-> now, due |-> nextIteration,
                                      run |-> runNo, ready |-> ready,
                                      failed |-> FALSE])
    /\ UNCHANGED <<runNo, ready>>

\* the run of the body that is ending met an error: the query did not return
\* the items the store holds (get_expiring_items caught an exception and
\* returned []), or a post of the alert was not delivered
TickFailed ==
    \/ alertItems # get_expiring_items(worksheet, sheetRows, backupRows, now, FALSE, FALSE)
    \/ \E i \in 1..Len(sent) : ~sent[i].ok

\* the loop task ending with the error of a body that met one
LoopBodyDone_ErrorEndsLoop ==
    /\ loopPc = "body"
    /\ alertPc = "done"
    /\ loopPc' = IF TickFailed THEN "failed" ELSE "due"
    /\ checkLog' = [checkLog EXCEPT ![Len(checkLog)].failed = TickFailed]
    /\ ResetAlert
    /\ UNCHANGED <<runNo, ready, nextIteration>>

\* the body has returned (its try/except lets no exception out); the loop
\* sleeps until the next iteration
LoopBodyDone ==
    /\ loopPc = "body"
    /\ alertPc = "done"
    /\ loopPc' = "due"
    /\ checkLog' = [checkLog EXCEPT ![Len(checkLog)].failed = TickFailed]
    /\ ResetAlert
    /\ UNCHANGED <<runNo, ready, nextIteration>>

\* the process ends, whatever it was doing; nothing of the loop is kept
ProcessStop ==
    /\ loopPc # "stopped"
    /\ loopPc' = "stopped"
    /\ ready' = FALSE
    /\ ResetAlert
    /\ UNCHANGED <<runNo, nextIteration, checkLog>>

\* the store the loop reads: nothing, or one item, or one more than a page of
\* items, all added at instant 0
TimerStores ==
    {[i \in 1..n |-> BackupRow(i, i, "UNIQUE", <<Tok("Alice")>>, 0, FALSE)] :
         n \in {0, 1, PageSize + 1}}
\* one tick before that item comes within the notification horizon
TimerStartTick == Timedelta(ITEM_EXPIRY_DAYS - NOTIFICATION_DAYS_BEFORE) - 1

InitTimer ==
    /\ worksheet = FALSE
    /\ sheetRows = <<>>
    /\ backupRows \in TimerStores
    /\ now = TimerStartTick
    /\ ret = NoRet
    /\ InitAlertIdle
    /\ InitUtilIdle
    /\ InitMainIdle
    /\ InitListIdle
    /\ InitSchedIdle

\* The timer: the process starts and stops, the connection becomes ready, the
\* loop runs its iterations, and the clock advances between them (a check is
\* over within the clock tick in which it began).
NextTimer ==
    \/ ProcessStart /\ UNCHANGED <<dbVars, now, alertVars, utilVars, mainVars, listVars, executing>>
    \/ OnReady /\ UNCHANGED <<dbVars, now, alertVars, utilVars, mainVars, listVars, executing>>
    \/ BeforeLoopDone /\ UNCHANGED <<dbVars, now, alertVars, utilVars, mainVars, listVars, executing>>
    \/ LoopBody /\ UNCHANGED <<dbVars, now, utilVars, mainVars, listVars, executing>>
    \/ SendMain /\ UNCHANGED <<dbVars, now, utilVars, mainVars, listVars, schedVars>>
    \/ SendContinuation /\ UNCHANGED <<dbVars, now, utilVars, mainVars, listVars, schedVars>>
    \/ LoopBodyDone /\ UNCHANGED <<dbVars, now, utilVars, mainVars, listVars, executing>>
    \/ ProcessStop /\ UNCHANGED <<dbVars, now, utilVars, mainVars, listVars, executing>>
    \/ /\ loopPc # "body"
       /\ AdvanceClockTo(TimerStartTick + LoopPeriod + MaxTimerSlack)
       /\ UNCHANGED <<alertVars, utilVars, mainVars, listVars, schedVars>>

SpecTimer == InitTimer /\ [][NextTimer]_vars

(***************************************************************************)
(* One event loop running the loop task and a /list_items invocation.      *)
(* A handler executes from the completion of one await to the next await   *)
(* (or to its return); the event loop resumes a handler only when no       *)
(* handler is executing.                                                   *)
(***************************************************************************)
\* handlers resumed whether or not another one is executing
LoopFree_Threads == TRUE

\* asyncio.run: a single event loop, which runs one callback at a time
LoopFree == executing = {}

\* the loop task is waiting at an await: its sleep has run out, or a webhook
\* post of the alert is in flight
TickAtAwait ==
    \/ loopPc = "due" /\ now >= nextIteration /\ Len(checkLog) < MaxChecks
    \/ loopPc = "body" /\ alertPc \in {"main", "cont"}

\* the /list_items handler is waiting at an await (defer, a followup send, the
\* sleep between pages) or has not been invoked yet
ListAtAwait ==
    \/ listPc \in {"idle", "fetch", "empty", "sleep", "error"}
    \/ /\ listPc = "page"
       /\ \A i \in 1..Len(PageItems(listItems, listPage)) :
              ~StrptimeRaises(PageItems(listItems, listPage)[i].Expire)

\* the event loop resumes the loop task
ResumeTick ==
    /\ LoopFree
    /\ "tick" \notin executing
    /\ TickAtAwait
    /\ executing' = executing \cup {"tick"}
    /\ UNCHANGED <<dbVars, now, alertVars, utilVars, mainVars, listVars, loopVars>>

\* the event loop starts or resumes the /list_items handler
ResumeList ==
    /\ LoopFree
    /\ "list" \notin executing
    /\ ListAtAwait
    /\ executing' = executing \cup {"list"}
    /\ UNCHANGED <<dbVars, now, alertVars, utilVars, mainVars, listVars, loopVars>>

\* the loop task executes step A and stops at its next await
TickRuns(A) ==
    /\ "tick" \in executing
    /\ A
    /\ executing' = IF alertPc' = "done" THEN executing ELSE executing \ {"tick"}

\* the /list_items handler executes step A and stops at its next await or returns
ListRuns(A) ==
    /\ "list" \in executing
    /\ A
    /\ executing' = IF listPc' = "done" \/ ListAtAwait' THEN executing \ {"list"}
                     ELSE executing

BotItemCounts == {0, 1, MaxListItems}

\* the process is up and ready, the loop's first iteration is due, and the
\* store holds 0, 1 or MaxListItems items
InitBot ==
    /\ now = ListStartTick
    /\ worksheet \in BOOLEAN
    /\ \E n \in BotItemCounts :
         /\ sheetRows = IF worksheet THEN ListSheetRows(n, 0, now) ELSE <<>>
         /\ backupRows = ListBackupRows(n, 0, now, worksheet)
    /\ ret = NoRet
    /\ InitAlertIdle
    /\ InitUtilIdle
    /\ InitMainIdle
    /\ InitListIdle
    /\ runNo = 1
    /\ ready = TRUE
    /\ loopPc = "due"
    /\ nextIteration = now
    /\ checkLog = <<>>
    /\ executing = {}

NextBot ==
    \/ ResumeTick
    \/ ResumeList
    \/ TickRuns(LoopBody) /\ UNCHANGED <<dbVars, now, utilVars, mainVars, listVars>>
    \/ TickRuns(SendMain) /\ UNCHANGED <<dbVars, now, utilVars, mainVars, listVars, loopVars>>
    \/ TickRuns(SendContinuation) /\ UNCHANGED <<dbVars, now, utilVars, mainVars, listVars, loopVars>>
    \/ TickRuns(LoopBodyDone) /\ UNCHANGED <<dbVars, now, utilVars, mainVars, listVars>>
    \/ ListRuns(ListItemsStart) /\ UNCHANGED <<dbVars, now, alertVars, utilVars, mainVars, loopVars>>
    \/ ListRuns(ListFetch) /\ UNCHANGED <<dbVars, now, alertVars, utilVars, mainVars, loopVars>>
    \/ ListRuns(ListSendEmpty) /\ UNCHANGED <<dbVars, now, alertVars, utilVars, mainVars, loopVars>>
    \/ ListRuns(ListSendPage) /\ UNCHANGED <<dbVars, now, alertVars, utilVars, mainVars, loopVars>>
    \/ ListRuns(ListSleep) /\ UNCHANGED <<dbVars, now, alertVars, utilVars, mainVars, loopVars>>
    \/ ListRuns(ListSendError) /\ UNCHANGED <<dbVars, now, alertVars, utilVars, mainVars, loopVars>>

SpecBot == InitBot /\ [][NextBot]_vars

(***************************************************************************)
(* main.py: the process from its imports to its exit, the signal handler   *)
(* and BotManager.shutdown                                                 *)
(***************************************************************************)
Event(ev, ok) == [ev |-> ev, ok |-> ok]
Count(log, ev) == Cardinality({k \in 1..Len(log) : log[k].ev = ev})

\* the flag left standing when the shutdown body begins
ShutdownClearsRunning_Kept == TRUE

\* self.running = False, the value the shutdown body gives the flag before its
\* first await
ShutdownClearsRunning == FALSE

\* `from bot import bot`: bot.py builds ClanStorageBot() on import, whose
\* DatabaseManager() runs _init_backup_db (no except around it) and
\* _connect_google_sheets (which logs a failure and goes on without a worksheet);
\* then main() installs the signal handlers and calls start()
ImportBot ==
    /\ mainPc = "none"
    /\ \E backupInitFails, sheetsFail \in BOOLEAN :
         IF backupInitFails
         THEN /\ mainPc' = "exited"
              /\ exitStatus' = "1"
              /\ mainLog' = Append(mainLog, Event("backup_init_failed", FALSE))
              /\ worksheet' = worksheet
         ELSE /\ mainPc' = "validate"
              /\ exitStatus' = exitStatus
              /\ mainLog' = mainLog
              /\ worksheet' = ~sheetsFail
    /\ UNCHANGED <<sheetRows, backupRows, ret, running, closed, pending, shutdownPc>>

\* Config.validate() in start(); on ValueError the except of start() sends the
\* error notification (delivered or not) and re-raises, and main() calls
\* sys.exit(1)
ConfigValidate ==
    /\ mainPc = "validate"
    /\ \E valid, notified \in BOOLEAN :
         IF valid
         THEN /\ mainPc' = "test_webhook"
              /\ exitStatus' = exitStatus
              /\ mainLog' = mainLog
         ELSE /\ mainPc' = "exited"
              /\ exitStatus' = "1"
              /\ mainLog' = mainLog \o <<Event("validate_failed", FALSE),
                                          Event("error_notification", notified)>>
    /\ UNCHANGED <<running, closed, pending, shutdownPc>>

\* webhook_test = await self.notifications.test_webhook(): a failure is only
\* logged; then self.running = True
TestWebhook ==
    /\ mainPc = "test_webhook"
    /\ \E webhook_test \in BOOLEAN :
         mainLog' = Append(mainLog, Event("test_webhook", webhook_test))
    /\ running' = TRUE
    /\ mainPc' = "starting"
    /\ UNCHANGED <<closed, pending, shutdownPc, exitStatus>>

\* await self.bot.start(token): login, setup_hook (which re-raises a failure of
\* tree.sync()) and the gateway connection; an exception reaches the except of
\* start(), which notifies and re-raises, and main() calls sys.exit(1)
BotStart ==
    /\ mainPc = "starting"
    /\ ~closed
    /\ \E loginFails, syncFails, notified \in BOOLEAN :
         IF loginFails \/ syncFails
         THEN /\ mainPc' = "exited"
              /\ exitStatus' = "1"
              /\ mainLog' = mainLog \o
                     <<Event(IF loginFails THEN "login_failed" ELSE "sync_failed", FALSE),
                       Event("error_notification", notified)>>
         ELSE /\ mainPc' = "connected"
              /\ exitStatus' = exitStatus
              /\ mainLog' = Append(mainLog, Event("connected", TRUE))
    /\ UNCHANGED <<running, closed, pending, shutdownPc>>

\* a data, storage or delivery error inside a command handler or the daily
\* check: caught by the handler's own except (bot.py:77-78, 232-239), logged
HandlerFails ==
    /\ mainPc = "connected"
    /\ Count(mainLog, "command_failed") + Count(mainLog, "daily_check_failed")
          < MaxHandlerErrors
    /\ \E ev \in {"command_failed", "daily_check_failed"} :
         mainLog' = Append(mainLog, Event(ev, FALSE))
    /\ UNCHANGED <<mainPc, running, closed, pending, shutdownPc, exitStatus>>

\* SIGINT or SIGTERM: signal_handler does loop.create_task(bot_manager.shutdown())
Signal ==
    /\ mainPc \in {"validate", "test_webhook", "starting", "connected"}
    /\ Count(mainLog, "signal") < MaxSignals
    /\ pending' = pending + 1
    /\ mainLog' = Append(mainLog, Event("signal", TRUE))
    /\ UNCHANGED <<mainPc, running, closed, shutdownPc, exitStatus>>

\* the event loop begins a shutdown() task, which runs to its first await:
\* if self.running: self.running = False; if not self.bot.is_closed(): await ...
ShutdownBegin ==
    /\ mainPc # "exited"
    /\ pending > 0
    /\ pending' = pending - 1
    /\ IF running
       THEN /\ running' = ShutdownClearsRunning
            /\ mainLog' = Append(mainLog, Event("shutdown_body", TRUE))
            /\ shutdownPc' = Append(shutdownPc, IF closed THEN "notify" ELSE "close")
       ELSE /\ running' = running
            /\ mainLog' = Append(mainLog, Event("shutdown_skipped", TRUE))
            /\ shutdownPc' = shutdownPc
    /\ UNCHANGED <<mainPc, closed, exitStatus>>

\* await self.bot.close() returns, or raises out of shutdown()
ShutdownClose ==
    /\ mainPc # "exited"
    /\ \E i \in 1..Len(shutdownPc), closeFails \in BOOLEAN :
         /\ shutdownPc[i] = "close"
         /\ mainLog' = Append(mainLog, Event("close", ~closeFails))
         /\ IF closeFails
            THEN closed' = closed /\ shutdownPc' = [shutdownPc EXCEPT ![i] = "raised"]
            ELSE closed' = TRUE /\ shutdownPc' = [shutdownPc EXCEPT ![i] = "notify"]
    /\ UNCHANGED <<mainPc, running, pending, exitStatus>>

\* await self.notifications.send_webhook_message(embed) inside try/except:
\* delivered or not, shutdown() goes on to its last log line and returns
ShutdownNotify ==
    /\ mainPc # "exited"
    /\ \E i \in 1..Len(shutdownPc), ok \in BOOLEAN :
         /\ shutdownPc[i] = "notify"
         /\ mainLog' = Append(mainLog, Event("notification", ok))
         /\ shutdownPc' = [shutdownPc EXCEPT ![i] = "done"]
    /\ UNCHANGED <<mainPc, running, closed, pending, exitStatus>>

\* the bot is closed, so bot.start() ends, start() and main() return and
\* asyncio.run cancels the tasks still pending; a bot closed before it had
\* connected may also make bot.start() raise
MainReturns ==
    /\ mainPc \in {"starting", "connected"}
    /\ closed
    /\ \E st \in {"0", "1"} :
         /\ st = "1" => mainPc = "starting"
         /\ exitStatus' = st
         /\ mainLog' = Append(mainLog, Event(IF st = "1" THEN "start_failed" ELSE "returned",
                                            st = "0"))
    /\ mainPc' = "exited"
    /\ pending' = 0
    /\ shutdownPc' = [i \in 1..Len(shutdownPc) |->
                         IF shutdownPc[i] \in {"close", "notify"} THEN "cancelled"
                         ELSE shutdownPc[i]]
    /\ UNCHANGED <<running, closed>>

InitMain ==
    /\ worksheet = FALSE
    /\ sheetRows = <<>>
    /\ backupRows = <<>>
    /\ ret = NoRet
    /\ now = 0
    /\ InitAlertIdle
    /\ InitUtilIdle
    /\ InitMainIdle
    /\ InitListIdle
    /\ InitSchedIdle

NextMain ==
    \/ ImportBot /\ UNCHANGED <<now, alertVars, utilVars, listVars, schedVars>>
    \/ ConfigValidate /\ UNCHANGED <<dbVars, now, alertVars, utilVars, listVars, schedVars>>
    \/ TestWebhook /\ UNCHANGED <<dbVars, now, alertVars, utilVars, listVars, schedVars>>
    \/ BotStart /\ UNCHANGED <<dbVars, now, alertVars, utilVars, listVars, schedVars>>
    \/ HandlerFails /\ UNCHANGED <<dbVars, now, alertVars, utilVars, listVars, schedVars>>
    \/ Signal /\ UNCHANGED <<dbVars, now, alertVars, utilVars, listVars, schedVars>>
    \/ ShutdownBegin /\ UNCHANGED <<dbVars, now, alertVars, utilVars, listVars, schedVars>>
    \/ ShutdownClose /\ UNCHANGED <<dbVars, now, alertVars, utilVars, listVars, schedVars>>
    \/ ShutdownNotify /\ UNCHANGED <<dbVars, now, alertVars, utilVars, listVars, schedVars>>
    \/ MainReturns /\ UNCHANGED <<dbVars, now, alertVars, utilVars, listVars, schedVars>>

SpecMain == InitMain /\ [][NextMain]_vars

(***************************************************************************)
(* The three operations that post payloads or write to the store, each     *)
(* run once over the same store: one daily check with its alert, one       *)
(* /list_items reply and one DatabaseManager.add_item.                     *)
(***************************************************************************)
\* one call of DatabaseManager.add_item
OpsAddItem ==
    /\ ret = NoRet
    /\ \E sheetErr, backupErr, appendFails, insertFails \in BOOLEAN :
           add_item("add_item", "Sword", "unique", <<Tok("Alice")>>,
                    sheetErr, backupErr, appendFails, insertFails)
    /\ UNCHANGED <<worksheet, now>>

OpsItemCounts == {0, PageSize + 1, MaxListItems}

InitOps ==
    /\ now = ListStartTick
    /\ worksheet \in BOOLEAN
    /\ \E n \in OpsItemCounts :
         /\ sheetRows = IF worksheet THEN ListSheetRows(n, 0, now) ELSE <<>>
         /\ backupRows = ListBackupRows(n, 0, now, worksheet)
    /\ ret = NoRet
    /\ InitAlertIdle
    /\ InitUtilIdle
    /\ InitMainIdle
    /\ InitListIdle
    /\ InitSchedIdle

NextOps ==
    \/ check_expiring_items /\ UNCHANGED <<dbVars, now, utilVars, mainVars, listVars, schedVars>>
    \/ SendMain /\ UNCHANGED <<dbVars, now, utilVars, mainVars, listVars, schedVars>>
    \/ SendContinuation /\ UNCHANGED <<dbVars, now, utilVars, mainVars, listVars, schedVars>>
    \/ ListItemsStart /\ UNCHANGED <<dbVars, now, alertVars, utilVars, mainVars, schedVars>>
    \/ ListFetch /\ UNCHANGED <<dbVars, now, alertVars, utilVars, mainVars, schedVars>>
    \/ ListSendEmpty /\ UNCHANGED <<dbVars, now, alertVars, utilVars, mainVars, schedVars>>
    \/ ListSendPage /\ UNCHANGED <<dbVars, now, alertVars, utilVars, mainVars, schedVars>>
    \/ ListSleep /\ UNCHANGED <<dbVars, now, alertVars, utilVars, mainVars, schedVars>>
    \/ ListSendError /\ UNCHANGED <<dbVars, now, alertVars, utilVars, mainVars, schedVars>>
    \/ OpsAddItem /\ UNCHANGED <<alertVars, utilVars, mainVars, listVars, schedVars>>

SpecOps == InitOps /\ [][NextOps]_vars

(***************************************************************************)
(* Claims about the store (checked under Spec; C7 under SpecQuery)         *)
(***************************************************************************)
StrictlyIncreasing(nums) == \A i, j \in 1..Len(nums) : i < j => nums[i] < nums[j]
SheetNoSeq == [i \in 1..Len(sheetRows) |-> sheetRows[i].no]
BackupNoSeq == [i \in 1..Len(backupRows) |-> backupRows[i].no]

\* C1: in each store no two records carry the same sequence number and every
\* record appended carries a number greater than all numbers appended before it.
C1_UniqueIncreasingNumbers ==
    StrictlyIncreasing(SheetNoSeq) /\ StrictlyIncreasing(BackupNoSeq)

StoreNumbers == SheetNumbers(sheetRows) \cup BackupNumbers(backupRows)
StoreMax == IF StoreNumbers = {} THEN 0 ELSE SetMax(StoreNumbers)

\* C2: a call of _get_next_number whose reads succeed returns N+1 where N is the
\* largest sequence number held by the store, and 1 when the store holds no item.
C2_NextIsMaxPlusOne ==
    (ret.op = "get_next_number" /\ ~ret.err) => ret.num = StoreMax + 1

\* C3: every spreadsheet row and every backup row has expire = created + 30 days
\* and updated = created.
C3_ExpireIsCreatedPlusRetention ==
    /\ \A i \in 1..Len(sheetRows) :
           /\ Strptime(sheetRows[i].expire)
                  = Strptime(sheetRows[i].created) + Timedelta(ITEM_EXPIRY_DAYS)
           /\ sheetRows[i].updated = sheetRows[i].created
    /\ \A i \in 1..Len(backupRows) :
           /\ backupRows[i].expire_date
                  = backupRows[i].created_at + Timedelta(ITEM_EXPIRY_DAYS)
           /\ backupRows[i].updated_at = backupRows[i].created_at

\* C3 witness: a record written at an instant with a sub-second part is in the
\* backup table and in the spreadsheet, whose text dropped that part.
C3_Witness ==
    \E i \in 1..Len(sheetRows), j \in 1..Len(backupRows) :
        /\ backupRows[j].synced
        /\ backupRows[j].created_at % TicksPerSecond # 0
        /\ sheetRows[i].no = backupRows[j].no
        /\ sheetRows[i].created = Strftime(backupRows[j].created_at)
        /\ sheetRows[i].created # backupRows[j].created_at

\* C4: /add_item invoked with a valid item type and no date or a valid non-future
\* date runs the storage add and reports success.
C4_ValidAddSucceeds ==
    (ret.op = "cmd_add_item" /\ ret.valid) => (ret.reply = "success" /\ ret.ok)

NamesOf(part) == [i \in 1..Len(Split(part)) |-> Strip(Split(part)[i])]
NoDuplicateNoEmpty(names) ==
    /\ \A i \in 1..Len(names) : names[i] # ""
    /\ \A i, j \in 1..Len(names) : i # j => names[i] # names[j]

\* C5: the participants field of every stored record holds no duplicate name and
\* no empty name.
C5_StoredParticipantsClean ==
    /\ \A i \in 1..Len(sheetRows) : NoDuplicateNoEmpty(NamesOf(sheetRows[i].participant))
    /\ \A i \in 1..Len(backupRows) : NoDuplicateNoEmpty(NamesOf(backupRows[i].participant))

\* the items within the horizon of the store that serves reads: the spreadsheet
\* when it is connected, the backup table otherwise
ActiveStoreExpiring ==
    LET notification_date == now + Timedelta(NOTIFICATION_DAYS_BEFORE)
    IN  IF worksheet
        THEN MapSeq(SheetItem,
                    SelectSeq(sheetRows, LAMBDA r : Strptime(r.expire) <= notification_date))
        ELSE MapSeq(BackupItem,
                    SelectSeq(backupRows, LAMBDA r : r.expire_date <= notification_date))

\* C7: get_expiring_items (its reads succeeding) returns exactly the items of the
\* store with expire_at <= now + 7 days; with a connected spreadsheet holding no
\* item within the horizon the result is empty.
C7_ExactlyItemsWithinHorizon ==
    (ret.op = "get_expiring_items" /\ ~ret.err) => ret.items = ActiveStoreExpiring

\* C13: DatabaseManager.add_item returns True only if the record was written to
\* at least one store, and returns False when neither the spreadsheet append nor
\* the backup insert wrote it.
C13_TrueOnlyIfPersisted ==
    [][ret'.op = "add_item" =>
          (ret'.ok <=> (Len(sheetRows') > Len(sheetRows)
                            \/ Len(backupRows') > Len(backupRows)))]_vars

\* the read of the spreadsheet was attempted and raised
SheetReadFailed == worksheet /\ ret.sheetErr
\* what the loop over the spreadsheet records gathered before the fallback test
GatheredFromSheet ==
    IF worksheet /\ ~ret.sheetErr
    THEN SelectSeq(sheetRows,
                   LAMBDA r : Strptime(r.expire) <= now + Timedelta(NOTIFICATION_DAYS_BEFORE))
    ELSE <<>>
\* the backup table was queried and the query raised
BackupReadFailed ==
    /\ ret.backupErr
    /\ \/ ret.op = "get_all_items" /\ ~worksheet
       \/ ret.op = "get_expiring_items" /\ GatheredFromSheet = <<>>

\* C14 as stated: on any storage error get_expiring_items and get_all_items
\* return an empty list.
C14_ErrorGivesEmptyList ==
    (ret.op \in {"get_expiring_items", "get_all_items"}
        /\ (SheetReadFailed \/ BackupReadFailed)) => ret.items = <<>>

\* C14 as amended: both queries return a list whatever fails; get_all_items
\* returns the empty list when its read fails; get_expiring_items returns the
\* empty list when its backup query fails, and when only the spreadsheet read
\* fails it returns the items of the backup table within the horizon, ordered
\* by expiry date.
C14_ErrorsContainedWithFallback ==
    /\ (ret.op = "get_all_items" /\ (SheetReadFailed \/ BackupReadFailed)) =>
           ret.items = <<>>
    /\ (ret.op = "get_expiring_items" /\ BackupReadFailed) => ret.items = <<>>
    /\ (ret.op = "get_expiring_items" /\ SheetReadFailed /\ ~ret.backupErr) =>
           /\ Len(ret.items)
                  = Cardinality({i \in 1..Len(backupRows) :
                        backupRows[i].expire_date
                            <= now + Timedelta(NOTIFICATION_DAYS_BEFORE)})
           /\ \A k \in 1..Len(ret.items) :
                  \E i \in 1..Len(backupRows) : ret.items[k] = BackupItem(backupRows[i])
           /\ \A k \in 1..(Len(ret.items) - 1) :
                  ret.items[k].expire_date <= ret.items[k + 1].expire_date

\* C14 witness: the spreadsheet read failed and the query answered with an item
\* of the backup table.
C14_Witness ==
    /\ ret.op = "get_expiring_items"
    /\ SheetReadFailed
    /\ ~ret.backupErr
    /\ ret.items # <<>>

\* the arguments of the last /add_item fail validation at time t: the type is
\* none of the three, or a date text was given that is in none of the accepted
\* layouts or names a day after today
InvalidAddInput(r, t) ==
    \/ Upper(r.tipe) \notin {"UNIQUE", "RED", "CONSUMABLE"}
    \/ /\ r.created_date # NoDate
       /\ \/ r.created_date.fmt \notin {"%Y-%m-%d", "%d/%m/%Y", "%d-%m-%Y", "%Y/%m/%d",
                                         "%d.%m.%Y", "%d %m %Y"}
          \/ r.created_date.date > t \div TicksPerDay

\* C15: a /add_item whose arguments fail validation gets the one validation
\* reply of its kind, allocates no sequence number and leaves the spreadsheet
\* and the backup table as they were.
C15_ValidationErrorLeavesStore ==
    [][(ret'.op = "cmd_add_item" /\ InvalidAddInput(ret', now)) =>
          /\ ret'.reply = (IF Upper(ret'.tipe) \notin {"UNIQUE", "RED", "CONSUMABLE"}
                           THEN "invalid_type" ELSE "invalid_date")
          /\ ret'.num = 0
          /\ ~ret'.ok
          /\ sheetRows' = sheetRows
          /\ backupRows' = backupRows]_vars

\* C15 witness: with a record in the store, a /add_item of a valid type and a
\* date of tomorrow has been answered with the date error.
C15_Witness ==
    /\ ret.op = "cmd_add_item"
    /\ ret.reply = "invalid_date"
    /\ Upper(ret.tipe) \in ITEM_TYPES
    /\ ret.created_date.fmt \in DateFormats
    /\ ret.created_date.date = Today(now) + 1
    /\ Len(backupRows) > 0

(***************************************************************************)
(* Claims about the alert (checked under SpecAlert)                        *)
(***************************************************************************)
\* C8: with an empty list of expiring items nothing is posted to the webhook,
\* whether the alert is called directly or the daily check ran; the direct call
\* returns True.
C8_NoPayloadWhenEmpty ==
    alertItems = <<>> =>
        /\ sent = <<>>
        /\ alertPc \in {"idle", "done"}
        /\ (alertPc = "done" /\ caller = "direct") => alertResult = "True"

\* C8 witness: a daily check over an empty query result has finished.
C8_Witness == alertItems = <<>> /\ alertPc = "done" /\ caller = "tick"

PagesFor(n) == (n + PageSize - 1) \div PageSize
PageSlice(list, k) == SubSeq(list, PageSize * (k - 1) + 1, Min(PageSize * k, Len(list)))

\* C9: for n >= 1 items the alert posts ceil(n/10) payloads, page 0 first; the
\* k-th post holds exactly the summaries of items 10k .. min(10k+10, n)-1 in
\* input order, so no page is empty and every summary is in exactly one post.
C9_PagesInOrder ==
    alertItems # <<>> =>
        /\ Len(sent) <= PagesFor(Len(alertItems))
        /\ alertPc = "done" => Len(sent) = PagesFor(Len(alertItems))
        /\ \A k \in 1..Len(sent) :
               /\ sent[k].embed.summaries = PageSlice(ItemsList(alertItems, now), k)
               /\ sent[k].embed.summaries # <<>>

\* C9 witness: 11 items were delivered as two posts, the second with one summary.
C9_Witness ==
    /\ alertPc = "done"
    /\ Len(alertItems) = PageSize + 1
    /\ Len(sent) = 2
    /\ Len(sent[1].embed.summaries) = PageSize
    /\ Len(sent[2].embed.summaries) = 1

\* C10: only the first post carries the total count, the participant roster, the
\* call-to-action text and the mention content; each later post is continuation
\* number k-1 with its summaries and none of those.
C10_OnlyFirstCarriesRoster ==
    \A k \in 1..Len(sent) :
        LET e == sent[k].embed
        IN  IF k = 1
            THEN /\ e.count = Len(alertItems)
                 /\ e.hasRoster /\ e.roster = Sorted(ParticipantNames(alertItems))
                 /\ e.hasAction /\ e.content
            ELSE /\ e.index = k - 1
                 /\ e.count = 0
                 /\ ~e.hasRoster /\ e.roster = <<>>
                 /\ ~e.hasAction /\ ~e.hasFooter /\ ~e.content

\* C10 witness: an alert of three posts has finished.
C10_Witness == alertPc = "done" /\ Len(sent) = 3

NameRank(n) == CHOOSE r \in 1..Len(NameOrder) : NameOrder[r] = n
\* the list with the items at positions i and i+1 exchanged
SwapAdjacent(items, i) ==
    [k \in 1..Len(items) |->
        IF k = i THEN items[i + 1] ELSE IF k = i + 1 THEN items[i] ELSE items[k]]
Reverse(items) == [k \in 1..Len(items) |-> items[Len(items) + 1 - k]]

\* C11: the roster of the first post is in alphabetical order without repeats,
\* holds exactly the trimmed non-blank names of the pieces of ALL input items
\* (also those beyond the first page), and the alert built from the reversed
\* list or from the list with any two neighbours exchanged has the same roster.
C11_RosterSortedSetOfAllItems ==
    Len(sent) >= 1 =>
        LET roster == sent[1].embed.roster
        IN  /\ \A a, b \in 1..Len(roster) :
                   a < b => NameRank(roster[a]) < NameRank(roster[b])
            /\ \A a \in 1..Len(roster) :
                   /\ roster[a] # ""
                   /\ \E i \in 1..Len(alertItems) :
                          \E k \in 1..Len(alertItems[i].participant) :
                              alertItems[i].participant[k].name = roster[a]
            /\ \A i \in 1..Len(alertItems) :
                   \A k \in 1..Len(alertItems[i].participant) :
                       alertItems[i].participant[k].name # "" =>
                           \E a \in 1..Len(roster) :
                               roster[a] = alertItems[i].participant[k].name
            /\ MainEmbed(Reverse(alertItems), now).roster = roster
            /\ \A i \in 1..(Len(alertItems) - 1) :
                   MainEmbed(SwapAdjacent(alertItems, i), now).roster = roster

\* C11 witness: the first post of an alert over more than ten items names a
\* participant that only an item beyond the first page has, whose stored piece
\* had surrounding blanks, next to entries from the first page.
C11_Witness ==
    /\ Len(sent) >= 1
    /\ Len(alertItems) > PageSize
    /\ \E a \in 1..Len(sent[1].embed.roster) :
           /\ \A i \in 1..PageSize :
                  \A k \in 1..Len(alertItems[i].participant) :
                      alertItems[i].participant[k].name # sent[1].embed.roster[a]
           /\ \E i \in (PageSize + 1)..Len(alertItems) :
                  \E k \in 1..Len(alertItems[i].participant) :
                      /\ alertItems[i].participant[k].pad
                      /\ alertItems[i].participant[k].name = sent[1].embed.roster[a]
    /\ Len(sent[1].embed.roster) > 1

(***************************************************************************)
(* Claims about the handlers on the event loop (checked under SpecBot)     *)
(***************************************************************************)
\* C12: a send that fails never stops the later payloads of the same sequence
\* from being attempted: an alert that has ended attempted every one of its
\* ceil(n/10) posts whichever of them failed, and a /list_items reply that has
\* ended with some page send failed attempted every page 1..total.
C12_FailedSendDoesNotAbort ==
    /\ (alertPc = "done" /\ alertItems # <<>>) =>
           /\ Len(sent) = PagesFor(Len(alertItems))
           /\ \A k \in 1..Len(sent) :
                  sent[k].embed.summaries = PageSlice(ItemsList(alertItems, now), k)
    /\ (listPc = "done"
           /\ \E k \in 1..Len(listLog) : listLog[k].kind = "page" /\ ~listLog[k].ok) =>
           \A p \in 1..TotalPages(listItems) :
               \E k \in 1..Len(listLog) : listLog[k].kind = "page" /\ listLog[k].page = p

\* C18 as stated: the /list_items handler is never started or resumed while a
\* check is between its start and its end, and a check is never started or
\* resumed while a /list_items invocation is between its start and its end.
C18_NoStartOrResumeDuringOther ==
    [][/\ ("list" \in executing' /\ "list" \notin executing) => loopPc # "body"
       /\ ("tick" \in executing' /\ "tick" \notin executing) =>
              listPc \in {"idle", "done"}]_vars

\* C18 amended: at every instant at most one handler is executing; a handler is
\* started or resumed only while no handler is executing, that is, while every
\* handler in progress is suspended at an await.
C18_OneHandlerExecutes ==
    /\ executing \subseteq {"tick", "list"}
    /\ Cardinality(executing) <= 1
    /\ "tick" \in executing => (listPc \in {"idle", "done"} \/ ListAtAwait)
    /\ "list" \in executing =>
           (loopPc = "due" \/ alertPc \in {"main", "cont", "done"})

\* C18 witness: the /list_items handler is executing, past its start, while a
\* check that has posted the first payload of its alert waits to post the next.
C18_Witness ==
    /\ executing = {"list"}
    /\ listPc \notin {"idle", "done"}
    /\ loopPc = "body"
    /\ alertPc = "cont"
    /\ Len(sent) >= 1

(***************************************************************************)
(* Claims about /list_items (checked under SpecList)                       *)
(***************************************************************************)
\* C19: a /list_items that has ended on n >= 1 items sent exactly ceil(n/10)
\* pages, in ascending order, page p holding the items 10(p-1) .. min(10p, n)-1
\* (0-based) and labelled p/total, with a pause of one second between every two
\* successive pages and none after the last; on no items it sent exactly one
\* 'storage empty' payload. (Stated for the invocations in which no send of a
\* page or of the 'storage empty' payload was refused.)
C19_PagesInOrderWithPauses ==
    (/\ listPc = "done"
     /\ \A k \in 1..Len(listLog) :
            listLog[k].kind \in {"page", "empty"} => listLog[k].ok) =>
        LET n == Len(listItems)
            total == (n + 9) \div 10
        IN  IF n = 0
            THEN Len(listLog) = 1 /\ listLog[1].kind = "empty"
            ELSE /\ Len(listLog) = 2 * total - 1
                 /\ \A p \in 1..total :
                        LET e == listLog[2 * p - 1]
                            first == 10 * (p - 1)
                            last == (IF 10 * p < n THEN 10 * p ELSE n) - 1
                        IN  /\ e.kind = "page"
                            /\ e.page = p
                            /\ e.total = total
                            /\ Len(e.fields) = last - first + 1
                            /\ \A i \in 1..Len(e.fields) :
                                   e.fields[i].No = listItems[first + i].No
                 /\ \A p \in 1..(total - 1) :
                        /\ listLog[2 * p].kind = "sleep"
                        /\ listLog[2 * p].secs = 1

\* C20: the marker /list_items shows for an item is the one
\* get_item_status_emoji gives for the item's number of days until expiry.
C20_ListMarkerIsStatusEmoji ==
    \A k \in 1..Len(listLog) :
        listLog[k].kind = "page" =>
            \A i \in 1..Len(listLog[k].fields) :
                listLog[k].fields[i].status_emoji =
                    get_item_status_emoji(listLog[k].fields[i].days)

(***************************************************************************)
(* Claims about utils (checked under SpecUtil)                             *)
(***************************************************************************)
\* the tiers as the claim names them
Tier(d) ==
    IF d <= 0 THEN "EXPIRED"
    ELSE IF d <= 3 THEN "CRITICAL"
    ELSE IF d <= 7 THEN "WARNING"
    ELSE "SAFE"

\* C6 as stated: the four tiers are distinguishable in the result, i.e. the
\* marker returned for a day count differs from the marker of every day count
\* of another tier.
C6_FourTiersDistinguishable ==
    emojiOut # "none" =>
        \A d \in (0 - StatusDayBound)..StatusDayBound :
            Tier(d) # Tier(emojiDays) => get_item_status_emoji(d) # emojiOut

\* C6 as amended: the function is total with three markers; EXPIRED (<= 0) and
\* CRITICAL (1..3) both give red, WARNING (4..7) gives yellow, SAFE (> 7) gives
\* green, so 0 and 3 are red and 7 is yellow.
C6_ThreeMarkers ==
    emojiOut # "none" =>
        /\ emojiOut \in {"red", "yellow", "green"}
        /\ Tier(emojiDays) \in {"EXPIRED", "CRITICAL"} <=> emojiOut = "red"
        /\ Tier(emojiDays) = "WARNING" <=> emojiOut = "yellow"
        /\ Tier(emojiDays) = "SAFE" <=> emojiOut = "green"

(***************************************************************************)
(* Claims about the 24-hour loop (checked under SpecTimer)                 *)
(***************************************************************************)
\* C17 as stated: every check begins with the connection ready, and any two
\* checks, of the same run of the process or not, begin at least a full
\* period apart.
C17_NoTwoChecksWithinAPeriod ==
    \A i \in 1..Len(checkLog) :
        /\ checkLog[i].ready
        /\ \A j \in 1..(i - 1) : checkLog[i].at - checkLog[j].at >= LoopPeriod

\* C17 amended: every check begins with the connection ready; within one run of
\* the process the checks follow a schedule that starts when the loop first
\* runs after ready and advances by exactly one period per check, and no check
\* begins before its scheduled time, so a run never makes more checks than
\* periods have begun since its first; the schedule of a run starts no earlier
\* than every check of the runs before it (nothing is carried over a restart).
C17_ReadyGatedOncePerPeriodOfRun ==
    \A i \in 1..Len(checkLog) :
        /\ checkLog[i].ready
        /\ checkLog[i].due <= checkLog[i].at
        /\ \A j \in 1..(i - 1) :
               IF checkLog[j].run = checkLog[i].run
               THEN checkLog[i].due = checkLog[j].due + (i - j) * LoopPeriod
               ELSE /\ checkLog[j].run < checkLog[i].run
                    /\ checkLog[i].due >= checkLog[j].at

\* C17 witness: the first run made two checks exactly a period apart, the
\* process was restarted, and the second run made its first check less than a
\* period after the last one, and only that one.
C17_Witness ==
    /\ Len(checkLog) = 3
    /\ checkLog[1].run = 1 /\ checkLog[2].run = 1 /\ checkLog[3].run = 2
    /\ checkLog[2].at = checkLog[1].at + LoopPeriod
    /\ checkLog[3].at - checkLog[2].at < LoopPeriod
    /\ checkLog[3].due > checkLog[2].due
    /\ loopPc = "due"
    /\ now < nextIteration

(***************************************************************************)
(* Claims about main.py (checked under SpecMain)                           *)
(***************************************************************************)
\* C23: however many signals arrive and however their shutdown() tasks
\* interleave, at most one task enters the shutdown body, the bot is closed at
\* most once and at most one shutdown notification is sent; a notification
\* that fails is swallowed: the task that sent it ends normally (only a failed
\* bot.close() makes a task raise, and then no notification was sent).
C23_ShutdownBodyAtMostOnce ==
    /\ Len(shutdownPc) <= 1
    /\ Count(mainLog, "shutdown_body") <= 1
    /\ Count(mainLog, "close") <= 1
    /\ Count(mainLog, "notification") <= 1
    /\ \A i \in 1..Len(shutdownPc) :
           /\ shutdownPc[i] = "raised" => Count(mainLog, "notification") = 0
           /\ (Count(mainLog, "notification") = 1 /\ mainPc # "exited") =>
                  shutdownPc[i] = "done"

\* C23 witness: two signals were delivered; one shutdown() task ran the body and
\* its notification failed, the other found the flag cleared and did nothing.
C23_Witness ==
    /\ Count(mainLog, "signal") >= 2
    /\ Count(mainLog, "shutdown_body") = 1
    /\ Count(mainLog, "shutdown_skipped") >= 1
    /\ \E k \in 1..Len(mainLog) : mainLog[k].ev = "notification" /\ ~mainLog[k].ok
    /\ shutdownPc = <<"done">>

\* C24: a failed Config.validate ends the process with status 1 before the bot
\* connects, and nothing else does: the process never exits with status 1
\* unless Config.validate failed.
C24_OnlyConfigFailureExits ==
    /\ Count(mainLog, "validate_failed") > 0 =>
           /\ mainPc = "exited"
           /\ exitStatus = "1"
           /\ Count(mainLog, "connected") = 0
    /\ exitStatus = "1" => Count(mainLog, "validate_failed") > 0

(***************************************************************************)
(* Claims about the three operations together (checked under SpecOps)      *)
(***************************************************************************)
\* C22: within one alert sequence no payload is posted twice and no more than
\* ceil(n/10) posts are made; within one /list_items reply no page is sent
\* twice and the 'storage empty' and the error payload are sent at most once;
\* one add_item calls append_row at most once and runs the INSERT at most once;
\* all this whether or not an attempt failed.
C22_EachPayloadAndWriteAtMostOnce ==
    /\ Len(sent) <= (Len(alertItems) + 9) \div 10
    /\ \A j, k \in 1..Len(sent) :
           j # k => sent[j].embed.index # sent[k].embed.index
    /\ \A j, k \in 1..Len(listLog) :
           (j # k /\ listLog[j].kind = listLog[k].kind /\ listLog[j].kind # "sleep") =>
               /\ listLog[j].kind = "page"
               /\ listLog[j].page # listLog[k].page
    /\ ret.op = "add_item" =>
           /\ ret.appends <= 1
           /\ ret.inserts <= 1
           /\ ret.appendFailed => ret.appends = 1
           /\ ret.insertFailed => ret.inserts = 1

\* C22 witness: all three operations have ended; a continuation post of the
\* alert failed, a page send of the listing failed, and both writes of the
\* add failed.
C22_Witness ==
    /\ alertPc = "done"
    /\ Len(sent) >= 2
    /\ \E k \in 2..Len(sent) : ~sent[k].ok
    /\ listPc = "done"
    /\ \E k \in 1..Len(listLog) : listLog[k].kind = "page" /\ ~listLog[k].ok
    /\ ret.op = "add_item"
    /\ ret.appendFailed
    /\ ret.insertFailed

(***************************************************************************)
(* Claims about RateLimiter (checked under SpecLimiter)                    *)
(***************************************************************************)
\* C25: is_allowed(identifier) returns True exactly when fewer than max_calls
\* of the identifier's recorded calls are younger than time_window, whatever
\* the age of the others (more than a day included) and whatever other
\* identifiers did; an allowed call is recorded and a refused one is not.
C25_AtMostMaxCallsPerWindow ==
    [][ret'.op = "is_allowed" =>
         LET identifier == ret'.arg
             window == LimiterWindow * TicksPerSecond
             young == {k \in 1..Len(calls[identifier]) :
                           now - calls[identifier][k] < window}
         IN  /\ ret'.ok <=> Cardinality(young) < LimiterMaxCalls
             /\ Cardinality({k \in 1..Len(calls'[identifier]) :
                                 calls'[identifier][k] = now})
                  = Cardinality({k \in 1..Len(calls[identifier]) :
                                     calls[identifier][k] = now})
                    + (IF ret'.ok THEN 1 ELSE 0)
             /\ \A other \in Identifiers \ {identifier} :
                    calls'[other] = calls[other]]_vars

(***************************************************************************)
(* Claims about Cache (checked under SpecCache)                            *)
(***************************************************************************)
\* C26: set(key, value, ttl) completes and stores value under key with the
\* expiry set time + ttl (+ default_ttl when ttl is omitted); get(key) returns
\* the stored value strictly before the expiry and None at or after it,
\* removing the entry; get of a key never set returns None.
C26_GetBeforeExpiryReturnsValue ==
    [][/\ ret'.op = "cache_set" =>
            /\ ret'.reply = "None"
            /\ cache'[ret'.arg[1]] =
                   [present |-> TRUE, value |-> ret'.arg[2],
                    expiry |-> now + (IF ret'.num = NoTtl THEN CacheDefaultTtl
                                      ELSE ret'.num) * TicksPerSecond]
       /\ ret'.op = "cache_get" =>
            LET key == ret'.arg[1]
            IN  IF cache[key].present /\ now < cache[key].expiry
                THEN ret'.reply = cache[key].value /\ cache' = cache
                ELSE ret'.reply = "None" /\ ~cache'[key].present]_vars

(***************************************************************************)
(* Claims about the value of the alert (checked under SpecAlert)           *)
(***************************************************************************)
\* C30: the value send_expiring_items_alert returns is the outcome of its
\* first post only (True for empty input), whatever the outcomes of the
\* continuation posts; and the daily check logs the alert as sent whatever
\* that value is.
C30_ResultIsFirstPostOutcome ==
    alertPc = "done" =>
        /\ (caller = "direct" /\ alertItems = <<>>) => alertResult = "True"
        /\ alertItems # <<>> =>
              /\ sent # <<>>
              /\ alertResult = PyBool(sent[1].ok)
              /\ caller = "tick" => tickLog = <<"Sent notification">>
        /\ (caller = "tick" /\ alertItems = <<>>) => tickLog = <<>>

\* C30 witness: the daily check's alert returned False, its first post
\* undelivered and its continuation posts delivered, and the check logged
\* the alert as sent.
C30_Witness ==
    /\ alertPc = "done"
    /\ caller = "tick"
    /\ Len(sent) >= 3
    /\ ~sent[1].ok
    /\ \A i \in 2..Len(sent) : sent[i].ok
    /\ alertResult = "False"
    /\ tickLog = <<"Sent notification">>

\* the alert returned True, its first post delivered and every continuation
\* post undelivered
C30_WitnessFirstDelivered ==
    /\ alertPc = "done"
    /\ Len(sent) >= 3
    /\ sent[1].ok
    /\ \A i \in 2..Len(sent) : ~sent[i].ok
    /\ alertResult = "True"

(***************************************************************************)
(* Claims about errors in the daily check (checked under SpecTimer)        *)
(***************************************************************************)
\* C29: an error inside one daily check never leaves check_expiring_items nor
\* stops the timer: when a run of the body ends, failed or not, the loop is
\* waiting for its next iteration, due one period after this one was; and
\* in every run an alert sequence was posted iff the query returned at least
\* one item.
C29_FailedTickKeepsTimerAlertIffItems ==
    [][(loopPc = "body" /\ loopPc' # "body" /\ loopPc' # "stopped") =>
          /\ loopPc' = "due"
          /\ nextIteration' = checkLog[Len(checkLog)].due + LoopPeriod
          /\ nextIteration' = nextIteration
          /\ (sent # <<>>) <=> (alertItems # <<>>)]_vars

\* C29 witness: in one process a check met an error and the check of the next
\* period has begun, a period after the failed one was due.
C29_Witness ==
    /\ Len(checkLog) >= 2
    /\ checkLog[1].failed
    /\ checkLog[2].run = checkLog[1].run
    /\ checkLog[2].due = checkLog[1].due + LoopPeriod
    /\ loopPc = "body"

(***************************************************************************)
(* Claims about chunk_list (checked under SpecChunk)                       *)
(***************************************************************************)
RECURSIVE Flatten(_)
Flatten(seqs) == IF seqs = <<>> THEN <<>> ELSE Head(seqs) \o Flatten(Tail(seqs))

\* C27: for k >= 1 chunk_list(lst, k) returns ceil(len(lst)/k) chunks whose
\* concatenation in order is lst; every chunk but the last has exactly k
\* elements, no chunk is empty, and the empty list gives no chunk.
C27_ChunksPartitionTheList ==
    ret.op = "chunk_list" =>
        LET lst == ret.arg
            k == ret.num
            chunks == ret.out
        IN  /\ Len(chunks) * k >= Len(lst)
            /\ (Len(chunks) - 1) * k < Len(lst) \/ (lst = <<>> /\ chunks = <<>>)
            /\ Flatten(chunks) = lst
            /\ \A j \in 1..(Len(chunks) - 1) : Len(chunks[j]) = k
            /\ \A j \in 1..Len(chunks) : chunks[j] # <<>> /\ Len(chunks[j]) <= k
            /\ lst = <<>> => chunks = <<>>

\* C27 witness: a list of ten elements was cut into chunks of three, the last
\* chunk holding one element.
C27_Witness ==
    /\ ret.op = "chunk_list"
    /\ Len(ret.arg) = 10
    /\ ret.num = 3
    /\ Len(ret.out) = 4
    /\ ret.out[4] = <<9>>

(***************************************************************************)
(* Claims about retry_on_failure (checked under SpecRetry)                 *)
(***************************************************************************)
\* the function is invoked at most max_retries times; a success ends the
\* call at once; after max_retries failures the last exception is re-raised
RetryBoundedAndFaithful ==
    /\ retry.invocations <= retry.max_retries
    /\ retry.result = "value" =>
          /\ retry.pc = "returned"
          /\ Len(retry.failures) = retry.invocations - 1
    /\ retry.pc = "raised" =>
          /\ retry.invocations = retry.max_retries
          /\ Len(retry.failures) = retry.max_retries
          /\ retry.raised = retry.failures[Len(retry.failures)]

\* C28: the wrapper invokes the function at most max_retries times, returns
\* the first success without further attempts, re-raises the last exception
\* after max_retries consecutive failures, and the wait before retry k+1 is
\* double the wait before retry k.
C28_BoundedRetriesWithDoublingWaits ==
    /\ RetryBoundedAndFaithful
    /\ \A k \in 1..(Len(retry.waits) - 1) : retry.waits[k + 1] = 2 * retry.waits[k]

(***************************************************************************)
(* Claims about sanitize_participant_names (checked under SpecSanitize)    *)
(***************************************************************************)
\* position of the first piece of text p whose name, stripped, is n
FirstPiece(p, n) == CHOOSE k \in 1..Len(p) : p[k].name = n /\ \A j \in 1..(k - 1) : p[j].name # n

\* C21: the result of sanitize_participant_names holds exactly the non-blank
\* names of the input, trimmed, each once, in the order of their first
\* occurrence, separated by ", "; it has no duplicate and no empty name; and
\* sanitizing the result gives the result again.
C21_SanitizeDistinctOrderedIdempotent ==
    ret.op = "sanitize_participant_names" =>
        LET inNames == {ret.arg[k].name : k \in 1..Len(ret.arg)} \ {""}
            out == ret.out
        IN  /\ inNames = {} => out = <<[pad |-> FALSE, name |-> ""]>>
            /\ inNames # {} =>
                   /\ {out[k].name : k \in 1..Len(out)} = inNames
                   /\ Len(out) = Cardinality(inNames)
                   /\ \A k \in 1..Len(out) : out[k].pad <=> k > 1
                   /\ \A j, k \in 1..Len(out) :
                          j < k => FirstPiece(ret.arg, out[j].name)
                                     < FirstPiece(ret.arg, out[k].name)
            /\ sanitize_participant_names(out) = out

\* C21 witness: a text of three pieces that repeats its first name, given in
\* another layout than the result, has been sanitized to two names.
C21_Witness ==
    /\ ret.op = "sanitize_participant_names"
    /\ Len(ret.arg) = 3
    /\ ret.arg[1].name = ret.arg[3].name
    /\ ret.arg[1].name # ""
    /\ ret.arg[2].pad
    /\ Len(ret.out) = 2
    /\ ret.out # ret.arg

\* the six layouts in the order of the claim
ClaimedFormatOrder ==
    <<"%Y-%m-%d", "%d/%m/%Y", "%d-%m-%Y", "%Y/%m/%d", "%d.%m.%Y", "%d %m %Y">>

\* C16: parse_date_input uses the first of the six layouts, in the fixed order,
\* that the text matches; it fails with the format error when none matches and
\* with the future-date error when the day named is after today; it accepts
\* today; a value it returns has that calendar day, not after today, and the
\* hour, minute and second of the current time.
C16_FirstFormatNotFutureCurrentTime ==
    ret.op = "parse_date_input" =>
        LET ds == ret.created_date
            matching == {k \in 1..Len(ClaimedFormatOrder) : ClaimedFormatOrder[k] = ds.fmt}
            today == now \div TicksPerDay
            timeOfDay == now % TicksPerDay
        IN  /\ ret.ok <=> (matching # {} /\ ds.date <= today)
            /\ matching = {} => ret.reply = "unrecognised"
            /\ (matching # {} /\ ds.date > today) => ret.reply = "future"
            /\ ret.ok =>
                   /\ ret.used \in matching
                   /\ \A k \in matching : ret.used <= k
                   /\ ret.at \div TicksPerDay = ds.date
                   /\ ret.at \div TicksPerDay <= today
                   /\ ret.at % TicksPerDay = timeOfDay - (timeOfDay % TicksPerSecond)

\* C16 witness: a text in the last of the six layouts naming today was parsed at
\* a time of day that is neither midnight nor a whole second.
C16_Witness ==
    /\ ret.op = "parse_date_input"
    /\ ret.ok
    /\ ret.used = 6
    /\ ret.created_date.date = Today(now)
    /\ ret.at % TicksPerDay # 0
    /\ ret.at # now

\* C6 witness: the boundary value 3 has been classified.
C6_Witness == emojiDays = 3 /\ emojiOut = "red"

====
